---- MODULE Spec2Model ----
(***************************************************************************)
(* A model of the algorithmic core of the MIDI-to-key autoplayer:          *)
(* TempoMap and get_time_groups (core.py), SectionAnalyzer, Humanizer and  *)
(* PedalGenerator (analysis.py), Note and KeyEvent (models.py).            *)
(*                                                                         *)
(* Python floats are modelled as exact rationals <<n, d>> (d > 0, lowest   *)
(* terms), so equal values are equal tuples.  Times are seconds, beats are *)
(* quarter notes, tempos are microseconds per quarter note.                *)
(***************************************************************************)
EXTENDS Integers, Sequences, FiniteSets, TLC

VARIABLES pc, tm, tq, notes, sections, ped, hum

vars == <<pc, tm, tq, notes, sections, ped, hum>>

----------------------------------------------------------------------------
(* Rational arithmetic standing for Python float arithmetic.               *)

Abs(x) == IF x < 0 THEN -x ELSE x

RECURSIVE GCD(_, _)
GCD(a, b) == IF b = 0 THEN a ELSE GCD(b, a % b)

Norm(n, d) ==
    LET s == IF d < 0 THEN -1 ELSE 1
        g == GCD(Abs(n), Abs(d))
    IN  <<(s * n) \div g, (s * d) \div g>>

R(n) == <<n, 1>>
Ms(k) == Norm(k, 1000)
RAdd(a, b) == Norm(a[1] * b[2] + b[1] * a[2], a[2] * b[2])
RSub(a, b) == Norm(a[1] * b[2] - b[1] * a[2], a[2] * b[2])
RMul(a, b) == Norm(a[1] * b[1], a[2] * b[2])
RDiv(a, b) == Norm(a[1] * b[2], a[2] * b[1])
RLe(a, b) == a[1] * b[2] <= b[1] * a[2]
RLt(a, b) == a[1] * b[2] < b[1] * a[2]
RMax(a, b) == IF RLt(a, b) THEN b ELSE a
RMin(a, b) == IF RLt(b, a) THEN b ELSE a
RAbs(a) == <<Abs(a[1]), a[2]>>

Zero == R(0)

(* A pair (x1, p1) is at or before (x2, p2) in the order of a tuple key.   *)
KeyLe(x1, p1, x2, p2) == RLt(x1, x2) \/ (x1 = x2 /\ p1 <= p2)

----------------------------------------------------------------------------
(* core.py: TempoMap                                                       *)

DEFAULT_TEMPO == 500000
MICROS == 1000000

(* tempo / 1_000_000.0: seconds per beat *)
SecPerBeat(tempo) == Norm(tempo, MICROS)

(* bisect.bisect_right(keys, x) on a sequence of rationals: the binary     *)
(* search of the standard library, lo = 0, hi = len(keys).                 *)
RECURSIVE BisectFrom(_, _, _, _)
BisectFrom(keys, x, lo, hi) ==
    IF lo < hi
    THEN LET mid == (lo + hi) \div 2
         IN  IF RLt(x, keys[mid + 1])
             THEN BisectFrom(keys, x, lo, mid)
             ELSE BisectFrom(keys, x, mid + 1, hi)
    ELSE lo

bisect_right(keys, x) == BisectFrom(keys, x, 0, Len(keys))

(* The loop of _build_segments over events[k..]: carries beat, last_t and  *)
(* the tempo in force before the event.                                    *)
RECURSIVE BuildFromNewTempo(_, _, _, _, _)
BuildFromNewTempo(events, k, beat, last_t, tempo) ==
    IF k > Len(events) THEN <<>>
    ELSE LET t == events[k][1]
             new_tempo == events[k][2]
             nb == RAdd(beat, RDiv(RSub(t, last_t), SecPerBeat(new_tempo)))
         IN  <<<<t, nb, new_tempo>>>>
                 \o BuildFromNewTempo(events, k + 1, nb, t, new_tempo)

RECURSIVE BuildFrom(_, _, _, _, _)
BuildFrom(events, k, beat, last_t, tempo) ==
    IF k > Len(events) THEN <<>>
    ELSE LET t == events[k][1]
             new_tempo == events[k][2]
             nb == RAdd(beat, RDiv(RSub(t, last_t), SecPerBeat(tempo)))
         IN  <<<<t, nb, new_tempo>>>> \o BuildFrom(events, k + 1, nb, t, new_tempo)

(* _build_segments appending the origin breakpoint whatever the events.    *)
build_segments_always_origin(events) ==
    <<<<Zero, Zero, DEFAULT_TEMPO>>>>
    \o BuildFrom(events, 1, Zero, Zero, DEFAULT_TEMPO)

build_segments(events) ==
    (IF events = <<>> \/ RLt(Zero, events[1][1])
     THEN <<<<Zero, Zero, DEFAULT_TEMPO>>>> ELSE <<>>)
    \o BuildFrom(events, 1, Zero, Zero, DEFAULT_TEMPO)

SegTimes(segs) == [i \in 1..Len(segs) |-> segs[i][1]]
SegBeats(segs) == [i \in 1..Len(segs) |-> segs[i][2]]

time_to_beat(segs, t) ==
    LET idx == bisect_right(SegTimes(segs), t) - 1
    IN  IF idx < 0 THEN Zero
        ELSE LET s == segs[idx + 1]
             IN  RAdd(s[2], RDiv(RSub(t, s[1]), SecPerBeat(s[3])))

beat_to_time_divides(segs, b) ==
    LET idx == bisect_right(SegBeats(segs), b) - 1
    IN  IF idx < 0 THEN Zero
        ELSE LET s == segs[idx + 1]
             IN  RAdd(s[1], RDiv(RSub(b, s[2]), SecPerBeat(s[3])))

beat_to_time(segs, b) ==
    LET idx == bisect_right(SegBeats(segs), b) - 1
    IN  IF idx < 0 THEN Zero
        ELSE LET s == segs[idx + 1]
             IN  RAdd(s[1], RMul(RSub(b, s[2]), SecPerBeat(s[3])))

get_tempo_at(events, time) ==
    LET idx == bisect_right([i \in 1..Len(events) |-> events[i][1]], time) - 1
    IN  IF idx >= 0 THEN events[idx + 1][2] ELSE DEFAULT_TEMPO

(* The scan of get_measure_boundaries for the active signature: the last  *)
(* signature of the leading run with ts[0] <= t + 0.001.                   *)
RECURSIVE ActiveSigFrom(_, _, _, _)
ActiveSigFrom(ts_list, t, k, active) ==
    IF k > Len(ts_list) THEN active
    ELSE IF RLe(ts_list[k][1], RAdd(t, Ms(1)))
         THEN ActiveSigFrom(ts_list, t, k + 1, ts_list[k])
         ELSE active

DefaultSigs == <<<<Zero, 4, 4>>>>

(* The while loop of get_measure_boundaries from beat position `beat`.     *)
RECURSIVE MeasuresFrom(_, _, _, _)
MeasuresFrom(segs, ts_list, beat, total_beats) ==
    IF RLt(beat, total_beats)
    THEN LET t == beat_to_time(segs, beat)
             active == ActiveSigFrom(ts_list, t, 1, ts_list[1])
             measure_beats == RMul(R(active[2]), Norm(4, active[3]))
             end_beat == RAdd(beat, measure_beats)
         IN  <<<<t, beat_to_time(segs, end_beat)>>>>
                 \o MeasuresFrom(segs, ts_list, end_beat, total_beats)
    ELSE <<>>

(* get_measure_boundaries walking up to total_duration taken as beats.     *)
get_measure_boundaries_in_seconds(tmap, total_duration) ==
    LET ts_list == IF tmap.time_signatures # <<>>
                   THEN tmap.time_signatures ELSE DefaultSigs
    IN  MeasuresFrom(tmap.segments, ts_list, Zero, total_duration)

get_measure_boundaries(tmap, total_duration) ==
    LET ts_list == IF tmap.time_signatures # <<>>
                   THEN tmap.time_signatures ELSE DefaultSigs
    IN  MeasuresFrom(tmap.segments, ts_list, Zero,
                     time_to_beat(tmap.segments, total_duration))

has_explicit_time_signatures(sigs) ==
    /\ Len(sigs) > 0
    /\ ~(Len(sigs) = 1 /\ sigs[1][1] = Zero /\ sigs[1][2] = 4)

----------------------------------------------------------------------------
(* models.py: Note; core.py: get_time_groups; list helpers                 *)

Note(id, pitch, start, dur, hand) ==
    [id |-> id, pitch |-> pitch, start_time |-> start, duration |-> dur,
     hand |-> hand]

end_time(n) == RAdd(n.start_time, n.duration)

RECURSIVE MaxEnd(_)
MaxEnd(ns) ==
    IF Len(ns) = 1 THEN end_time(ns[1])
    ELSE RMax(end_time(ns[1]), MaxEnd(Tail(ns)))

(* [n for n in ns if n.hand == hand] *)
RECURSIVE NotesOfHand(_, _)
NotesOfHand(ns, hand) ==
    IF ns = <<>> THEN <<>>
    ELSE (IF ns[1].hand = hand THEN <<ns[1]>> ELSE <<>>)
             \o NotesOfHand(Tail(ns), hand)

(* list.sort / sorted with key start_time: stable.                         *)
RECURSIVE InsertByStart(_, _)
InsertByStart(sorted, n) ==
    IF sorted = <<>> THEN <<n>>
    ELSE LET last == sorted[Len(sorted)]
         IN  IF RLe(last.start_time, n.start_time)
             THEN Append(sorted, n)
             ELSE Append(InsertByStart(SubSeq(sorted, 1, Len(sorted) - 1), n), last)

RECURSIVE SortByStart(_)
SortByStart(ns) ==
    IF ns = <<>> THEN <<>>
    ELSE InsertByStart(SortByStart(SubSeq(ns, 1, Len(ns) - 1)), ns[Len(ns)])

(* list.sort with key pitch: stable.                                       *)
RECURSIVE InsertByPitch(_, _)
InsertByPitch(sorted, n) ==
    IF sorted = <<>> THEN <<n>>
    ELSE LET last == sorted[Len(sorted)]
         IN  IF last.pitch <= n.pitch
             THEN Append(sorted, n)
             ELSE Append(InsertByPitch(SubSeq(sorted, 1, Len(sorted) - 1), n), last)

RECURSIVE SortByPitch(_)
SortByPitch(ns) ==
    IF ns = <<>> THEN <<>>
    ELSE InsertByPitch(SortByPitch(SubSeq(ns, 1, Len(ns) - 1)), ns[Len(ns)])

GROUP_THRESHOLD == Ms(15)

(* The loop of get_time_groups from notes[i], `current` the open group.    *)
(* The loop of get_time_groups comparing with the group's last member.    *)
RECURSIVE GroupsFromPrevious(_, _, _, _)
GroupsFromPrevious(ns, i, current, threshold) ==
    IF i > Len(ns) THEN <<current>>
    ELSE IF RLe(RSub(ns[i].start_time, current[Len(current)].start_time), threshold)
         THEN GroupsFromPrevious(ns, i + 1, Append(current, ns[i]), threshold)
         ELSE <<current>> \o GroupsFromPrevious(ns, i + 1, <<ns[i]>>, threshold)

RECURSIVE GroupsFrom(_, _, _, _)
GroupsFrom(ns, i, current, threshold) ==
    IF i > Len(ns) THEN <<current>>
    ELSE IF RLe(RSub(ns[i].start_time, current[1].start_time), threshold)
         THEN GroupsFrom(ns, i + 1, Append(current, ns[i]), threshold)
         ELSE <<current>> \o GroupsFrom(ns, i + 1, <<ns[i]>>, threshold)

get_time_groups(ns) ==
    IF ns = <<>> THEN <<>> ELSE GroupsFrom(ns, 2, <<ns[1]>>, GROUP_THRESHOLD)

----------------------------------------------------------------------------
(* analysis.py: SectionAnalyzer                                            *)

MusicalSection(st, en, ns, art, pace, sb, eb) ==
    [start_time |-> st, end_time |-> en, notes |-> ns,
     articulation_label |-> art, pace_label |-> pace,
     start_beat |-> sb, end_beat |-> eb]

None == "None"

LEGATO_MIN == Norm(95, 100)
STACCATO_MAX == Norm(60, 100)
RATIO_CAP == Norm(12, 10)

(* The pair loop of _classify_bass_articulation from index i (1-based):    *)
(* <<total_overlap, total_possible>>.                                      *)
RECURSIVE OverlapFrom(_, _, _, _, _)
OverlapFrom(segs, lh, i, total_overlap, total_possible) ==
    IF i > Len(lh) - 1 THEN <<total_overlap, total_possible>>
    ELSE LET curr == lh[i]
             next_n == lh[i + 1]
             curr_beat == time_to_beat(segs, curr.start_time)
             next_beat == time_to_beat(segs, next_n.start_time)
             ioi_beats == RSub(next_beat, curr_beat)
         IN  IF RLe(ioi_beats, Zero)
             THEN OverlapFrom(segs, lh, i + 1, total_overlap, total_possible)
             ELSE LET dur_beats == RSub(time_to_beat(segs, end_time(curr)), curr_beat)
                      ratio == RDiv(dur_beats, ioi_beats)
                  IN  OverlapFrom(segs, lh, i + 1,
                                  RAdd(total_overlap, RMin(ratio, RATIO_CAP)),
                                  RAdd(total_possible, R(1)))

StyleOfAverage(avg_ratio) ==
    IF RLe(LEGATO_MIN, avg_ratio) THEN "legato"
    ELSE IF RLe(avg_ratio, STACCATO_MAX) THEN "staccato"
    ELSE "hybrid"

(* _classify_bass_articulation taking the notes of both hands.            *)
classify_bass_articulation_any_hand(segs, ns) ==
    LET lh_notes == ns
    IN  IF Len(lh_notes) < 2 THEN "legato"
        ELSE LET tot == OverlapFrom(segs, SortByStart(lh_notes), 1, Zero, Zero)
             IN  IF tot[2] = Zero THEN "legato"
                 ELSE StyleOfAverage(RDiv(tot[1], tot[2]))

classify_bass_articulation(segs, ns) ==
    LET lh_notes == NotesOfHand(ns, "left")
    IN  IF Len(lh_notes) < 2 THEN "legato"
        ELSE LET tot == OverlapFrom(segs, SortByStart(lh_notes), 1, Zero, Zero)
             IN  IF tot[2] = Zero THEN "legato"
                 ELSE StyleOfAverage(RDiv(tot[1], tot[2]))

FAST_ABOVE == Norm(35, 10)
SLOW_BELOW == R(1)

classify_pace_beats(ns, start_beat, end_beat) ==
    LET duration_beats == RSub(end_beat, start_beat)
    IN  IF RLe(duration_beats, Zero) THEN "normal"
        ELSE LET npb == RDiv(R(Len(ns)), duration_beats)
             IN  IF RLt(FAST_ABOVE, npb) THEN "fast"
                 ELSE IF RLt(npb, SLOW_BELOW) THEN "slow"
                 ELSE "normal"

(* NotesInMeasure taking the notes that start at the measure's end too.    *)
RECURSIVE NotesInMeasureClosed(_, _, _)
NotesInMeasureClosed(ns, m_start, m_end) ==
    IF ns = <<>> THEN <<>>
    ELSE (IF RLe(m_start, ns[1].start_time) /\ RLe(ns[1].start_time, m_end)
          THEN <<ns[1]>> ELSE <<>>) \o NotesInMeasureClosed(Tail(ns), m_start, m_end)

(* [n for n in self.notes if n.start_time >= m_start and n.start_time < m_end] *)
RECURSIVE NotesInMeasure(_, _, _)
NotesInMeasure(ns, m_start, m_end) ==
    IF ns = <<>> THEN <<>>
    ELSE (IF RLe(m_start, ns[1].start_time) /\ RLt(ns[1].start_time, m_end)
          THEN <<ns[1]>> ELSE <<>>) \o NotesInMeasure(Tail(ns), m_start, m_end)

(* classify_chunk of _analyze_by_measures: <<art, pace>> *)
classify_chunk(segs, chunk_notes, s_time, e_time) ==
    <<classify_bass_articulation(segs, chunk_notes),
      classify_pace_beats(chunk_notes, time_to_beat(segs, s_time),
                          time_to_beat(segs, e_time))>>

(* What a measure is classified as: an empty one takes prev_style/pace.    *)
MeasureClass(segs, notes_in_measure, m, prev_style, prev_pace) ==
    IF notes_in_measure = <<>>
    THEN <<IF prev_style # None THEN prev_style ELSE "legato",
           IF prev_pace # None THEN prev_pace ELSE "normal">>
    ELSE classify_chunk(segs, notes_in_measure, m[1], m[2])

FlushSection(segs, st, sec_end) ==
    MusicalSection(st.current_section_start, sec_end, st.current_notes_in_section,
                   st.prev_style, st.prev_pace,
                   time_to_beat(segs, st.current_section_start),
                   time_to_beat(segs, sec_end))

(* MeasureStep keeping the pace of the latest measure of the run.          *)
MeasureStepLatestPace(segs, ns, m, st) ==
    LET notes_in_measure == NotesInMeasure(ns, m[1], m[2])
        cls == MeasureClass(segs, notes_in_measure, m, st.prev_style, st.prev_pace)
        style == cls[1]
        pace == cls[2]
    IN  IF st.prev_style = None
        THEN [st EXCEPT !.prev_style = style, !.prev_pace = pace,
                        !.current_notes_in_section = @ \o notes_in_measure]
        ELSE IF style # st.prev_style
        THEN [sections |-> IF st.current_notes_in_section # <<>>
                           THEN Append(st.sections, FlushSection(segs, st, m[1]))
                           ELSE st.sections,
              current_section_start |-> m[1],
              current_notes_in_section |-> notes_in_measure,
              prev_style |-> style,
              prev_pace |-> pace]
        ELSE [st EXCEPT !.prev_pace = pace,
                        !.current_notes_in_section = @ \o notes_in_measure]

(* One iteration of the measure loop of _analyze_by_measures.              *)
MeasureStep(segs, ns, m, st) ==
    LET notes_in_measure == NotesInMeasure(ns, m[1], m[2])
        cls == MeasureClass(segs, notes_in_measure, m, st.prev_style, st.prev_pace)
        style == cls[1]
        pace == cls[2]
    IN  IF st.prev_style = None
        THEN [st EXCEPT !.prev_style = style, !.prev_pace = pace,
                        !.current_notes_in_section = @ \o notes_in_measure]
        ELSE IF style # st.prev_style
        THEN [sections |-> IF st.current_notes_in_section # <<>>
                           THEN Append(st.sections, FlushSection(segs, st, m[1]))
                           ELSE st.sections,
              current_section_start |-> m[1],
              current_notes_in_section |-> notes_in_measure,
              prev_style |-> style,
              prev_pace |-> pace]
        ELSE [st EXCEPT !.current_notes_in_section = @ \o notes_in_measure]

RECURSIVE MeasureLoop(_, _, _, _, _)
MeasureLoop(segs, ns, measures, i, st) ==
    IF i > Len(measures) THEN st
    ELSE MeasureLoop(segs, ns, measures, i + 1, MeasureStep(segs, ns, measures[i], st))

analyze_by_measures(tmap, ns) ==
    LET measures == get_measure_boundaries(tmap, MaxEnd(ns))
        st0 == [sections |-> <<>>,
                current_section_start |-> IF measures # <<>> THEN measures[1][1] ELSE Zero,
                current_notes_in_section |-> <<>>,
                prev_style |-> None,
                prev_pace |-> None]
        st == MeasureLoop(tmap.segments, ns, measures, 1, st0)
    IN  IF st.current_notes_in_section # <<>>
        THEN Append(st.sections, FlushSection(tmap.segments, st, measures[Len(measures)][2]))
        ELSE st.sections

(* IsGrandPause splitting at a gap of exactly 2.0 beats too.               *)
IsGrandPauseAtLeast(events, current_start, last_end_time) ==
    LET gap_sec == RSub(current_start, last_end_time)
        sec_per_beat == SecPerBeat(get_tempo_at(events, last_end_time))
        gap_beats == RDiv(gap_sec, sec_per_beat)
    IN  RLe(R(2), gap_beats)

GRAND_PAUSE_BEATS == R(2)

(* Whether note i (1-based, i >= 2) opens a new section, given the running *)
(* maximum end time of the notes before it.                                *)
IsGrandPause(events, current_start, last_end_time) ==
    LET gap_sec == RSub(current_start, last_end_time)
        sec_per_beat == SecPerBeat(get_tempo_at(events, last_end_time))
        gap_beats == RDiv(gap_sec, sec_per_beat)
    IN  RLt(GRAND_PAUSE_BEATS, gap_beats)

(* The loop of _detect_grand_pauses from note i: the boundary indices      *)
(* (0-based, as in the code) it appends.                                   *)
RECURSIVE PausesFrom(_, _, _, _)
PausesFrom(events, ns, i, last_end_time) ==
    IF i > Len(ns) THEN <<>>
    ELSE (IF IsGrandPause(events, ns[i].start_time, last_end_time)
          THEN <<i - 1>> ELSE <<>>)
         \o PausesFrom(events, ns, i + 1, RMax(last_end_time, end_time(ns[i])))

detect_grand_pauses(events, ns) ==
    IF ns = <<>> THEN <<0>>
    ELSE <<0>> \o PausesFrom(events, ns, 2, end_time(ns[1])) \o <<Len(ns)>>

(* The slice loop of _analyze_by_silence from boundary i (1-based).        *)
RECURSIVE SilenceFrom(_, _, _, _)
SilenceFrom(tmap, ns, boundaries, i) ==
    IF i > Len(boundaries) - 1 THEN <<>>
    ELSE LET start_idx == boundaries[i]
             end_idx == boundaries[i + 1] - 1
             sec_notes == SubSeq(ns, start_idx + 1, end_idx + 1)
         IN  (IF start_idx > end_idx \/ sec_notes = <<>> THEN <<>>
              ELSE LET st == sec_notes[1].start_time
                       en == MaxEnd(sec_notes)
                       sb == time_to_beat(tmap.segments, st)
                       eb == time_to_beat(tmap.segments, en)
                   IN  <<MusicalSection(st, en, sec_notes,
                             classify_bass_articulation(tmap.segments, sec_notes),
                             classify_pace_beats(sec_notes, sb, eb), sb, eb)>>)
             \o SilenceFrom(tmap, ns, boundaries, i + 1)

analyze_by_silence(tmap, ns) ==
    SilenceFrom(tmap, ns, detect_grand_pauses(tmap.events, ns), 1)

(* SectionAnalyzer(notes, tempo_map).analyze() *)
analyze(tmap, input_notes) ==
    LET ns == SortByStart(input_notes)
    IN  IF ns = <<>> THEN <<>>
        ELSE IF has_explicit_time_signatures(tmap.time_signatures)
        THEN analyze_by_measures(tmap, ns)
        ELSE analyze_by_silence(tmap, ns)

----------------------------------------------------------------------------
(* models.py: KeyEvent; analysis.py: PedalGenerator                        *)

KeyEvent(time, priority, action, key_char) ==
    [time |-> time, priority |-> priority, action |-> action, key_char |-> key_char]

PedalDown(t) == KeyEvent(t, 1, "pedal", "down")

(* A disengage given the priority of an engage.                            *)
PedalUpSamePriority(t) == KeyEvent(t, 1, "pedal", "up")

PedalUp(t) == KeyEvent(t, 0, "pedal", "up")

PEDAL_LAG == Ms(50)
DRIVER_GAP == Ms(350)
HARMONIC_GAP == Ms(150)
SAFE_INTERVALS == {0, 3, 4, 5, 7}
UNSAFE_INTERVALS == {1, 6}

(* ShouldRepedal taking the intervals outside both sets as dissonant.      *)
ShouldRepedalGrayUnsafe(curr, next_n) ==
    LET interval == Abs(next_n.pitch - curr.pitch) % 12
    IN  IF interval \in SAFE_INTERVALS THEN FALSE
        ELSE IF interval \in UNSAFE_INTERVALS THEN TRUE
        ELSE TRUE

(* should_repedal of the adaptive driver for the pair (curr, next_n).      *)
ShouldRepedal(curr, next_n) ==
    LET interval == Abs(next_n.pitch - curr.pitch) % 12
    IN  IF interval \in SAFE_INTERVALS THEN FALSE
        ELSE IF interval \in UNSAFE_INTERVALS THEN TRUE
        ELSE FALSE

(* AdaptiveNoteEvents leaving the pedal up after a silence.                *)
AdaptiveNoteEventsNoReengage(driver, i) ==
    LET curr == driver[i]
        has_next == i < Len(driver)
        gap == IF has_next THEN RSub(driver[i + 1].start_time, end_time(curr)) ELSE Zero
    IN  (IF i = 1 THEN <<PedalDown(curr.start_time)>> ELSE <<>>)
        \o (IF RLt(DRIVER_GAP, gap)
            THEN <<PedalUp(end_time(curr))>>
            ELSE IF has_next /\ ShouldRepedal(curr, driver[i + 1])
            THEN <<PedalUp(driver[i + 1].start_time),
                   PedalDown(RAdd(driver[i + 1].start_time, PEDAL_LAG))>>
            ELSE <<>>)

(* AdaptiveNoteEvents re-engaging, after a silence, at the start of the    *)
(* note before it.                                                         *)
AdaptiveNoteEventsReengageAtCurrent(driver, i) ==
    LET curr == driver[i]
        has_next == i < Len(driver)
        gap == IF has_next THEN RSub(driver[i + 1].start_time, end_time(curr)) ELSE Zero
    IN  (IF i = 1 THEN <<PedalDown(curr.start_time)>> ELSE <<>>)
        \o (IF RLt(DRIVER_GAP, gap)
            THEN <<PedalUp(end_time(curr))>>
                     \o (IF has_next THEN <<PedalDown(curr.start_time)>> ELSE <<>>)
            ELSE IF has_next /\ ShouldRepedal(curr, driver[i + 1])
            THEN <<PedalUp(driver[i + 1].start_time),
                   PedalDown(RAdd(driver[i + 1].start_time, PEDAL_LAG))>>
            ELSE <<>>)

(* The events one iteration of the adaptive driver's loop appends for      *)
(* driver note i (1-based).                                                *)
AdaptiveNoteEvents(driver, i) ==
    LET curr == driver[i]
        has_next == i < Len(driver)
        gap == IF has_next THEN RSub(driver[i + 1].start_time, end_time(curr)) ELSE Zero
    IN  (IF i = 1 THEN <<PedalDown(curr.start_time)>> ELSE <<>>)
        \o (IF RLt(DRIVER_GAP, gap)
            THEN <<PedalUp(end_time(curr))>>
                     \o (IF has_next THEN <<PedalDown(driver[i + 1].start_time)>> ELSE <<>>)
            ELSE IF has_next /\ ShouldRepedal(curr, driver[i + 1])
            THEN <<PedalUp(driver[i + 1].start_time),
                   PedalDown(RAdd(driver[i + 1].start_time, PEDAL_LAG))>>
            ELSE <<>>)

(* HarmonicNoteEvents breaking the pedal at a gap only when the pitch      *)
(* changes.                                                                *)
HarmonicNoteEventsGapOnNewPitch(bass_notes, i, current_bass_pitch) ==
    LET note == bass_notes[i]
        is_new_harmony == note.pitch # current_bass_pitch
        prev_end == IF i > 1 THEN end_time(bass_notes[i - 1]) ELSE Zero
        has_gap == RLt(HARMONIC_GAP, RSub(note.start_time, prev_end))
    IN  IF i = 1 THEN <<PedalDown(note.start_time)>>
        ELSE IF has_gap /\ is_new_harmony
        THEN <<PedalUp(prev_end), PedalDown(note.start_time)>>
        ELSE IF is_new_harmony THEN <<PedalUp(note.start_time), PedalDown(note.start_time)>>
        ELSE <<>>

(* HarmonicNoteEvents re-engaging before it disengages on a pitch change.  *)
HarmonicNoteEventsDownFirst(bass_notes, i, current_bass_pitch) ==
    LET note == bass_notes[i]
        is_new_harmony == note.pitch # current_bass_pitch
        prev_end == IF i > 1 THEN end_time(bass_notes[i - 1]) ELSE Zero
        has_gap == RLt(HARMONIC_GAP, RSub(note.start_time, prev_end))
    IN  IF i = 1 THEN <<PedalDown(note.start_time)>>
        ELSE IF has_gap THEN <<PedalUp(prev_end), PedalDown(note.start_time)>>
        ELSE IF is_new_harmony THEN <<PedalDown(note.start_time), PedalUp(note.start_time)>>
        ELSE <<>>

(* The events one iteration of the harmonic pedal's loop appends for bass  *)
(* note i (1-based), current_bass_pitch being the pitch tracked so far.    *)
HarmonicNoteEvents(bass_notes, i, current_bass_pitch) ==
    LET note == bass_notes[i]
        is_new_harmony == note.pitch # current_bass_pitch
        prev_end == IF i > 1 THEN end_time(bass_notes[i - 1]) ELSE Zero
        has_gap == RLt(HARMONIC_GAP, RSub(note.start_time, prev_end))
    IN  IF i = 1 THEN <<PedalDown(note.start_time)>>
        ELSE IF has_gap THEN <<PedalUp(prev_end), PedalDown(note.start_time)>>
        ELSE IF is_new_harmony THEN <<PedalUp(note.start_time), PedalDown(note.start_time)>>
        ELSE <<>>

(* RhythmicFrom releasing at the end of each group's first note.           *)
RECURSIVE RhythmicFromFirstEnd(_, _)
RhythmicFromFirstEnd(groups, k) ==
    IF k > Len(groups) THEN <<>>
    ELSE <<PedalDown(groups[k][1].start_time), PedalUp(end_time(groups[k][1]))>>
             \o RhythmicFromFirstEnd(groups, k + 1)

(* The rhythmic style's events for the simultaneity groups k.. of a        *)
(* section's left-hand notes.                                              *)
RECURSIVE RhythmicFrom(_, _)
RhythmicFrom(groups, k) ==
    IF k > Len(groups) THEN <<>>
    ELSE <<PedalDown(groups[k][1].start_time), PedalUp(MaxEnd(groups[k]))>>
             \o RhythmicFrom(groups, k + 1)

(* The driver voice taken from both hands.                                 *)
DriverNotesBothHands(final_notes) == SortByStart(final_notes)

(* The driver voice of the hybrid style.                                   *)
DriverNotes(final_notes) ==
    LET bass_notes == SortByStart(NotesOfHand(final_notes, "left"))
    IN  IF bass_notes = <<>> THEN SortByStart(NotesOfHand(final_notes, "right"))
        ELSE bass_notes

PedalCall(style) ==
    [stage |-> "start", style |-> style, events |-> <<>>, sec |-> 0,
     voice |-> <<>>, i |-> 0, current_bass_pitch |-> -1]

(* generate_events up to its first loop: 'none' returns at once, 'hybrid'  *)
(* hands over to the adaptive driver, the other styles iterate sections.   *)
GenerateEvents ==
    /\ pc = "pedal"
    /\ ped.stage = "start"
    /\ ped' = IF ped.style = "none" THEN [ped EXCEPT !.stage = "done"]
              ELSE IF ped.style = "hybrid"
              THEN IF DriverNotes(notes) = <<>> THEN [ped EXCEPT !.stage = "done"]
                   ELSE [ped EXCEPT !.stage = "adaptive", !.voice = DriverNotes(notes),
                                    !.i = 1]
              ELSE [ped EXCEPT !.stage = "sections", !.sec = 1]
    /\ UNCHANGED <<pc, tm, tq, notes, sections, hum>>

(* One iteration of `for section in sections`, up to the call of           *)
(* _generate_harmonic_pedal; the loop's end returns events.                *)
SectionStep ==
    /\ pc = "pedal"
    /\ ped.stage = "sections"
    /\ ped' =
         IF ped.sec > Len(sections) THEN [ped EXCEPT !.stage = "done"]
         ELSE LET section == sections[ped.sec]
                  lh_notes == SortByStart(NotesOfHand(section.notes, "left"))
              IN  IF lh_notes = <<>>
                  THEN [ped EXCEPT !.events = @ \o <<PedalDown(section.notes[1].start_time),
                                                      PedalUp(MaxEnd(section.notes))>>,
                                   !.sec = @ + 1]
                  ELSE IF ped.style = "rhythmic"
                  THEN [ped EXCEPT !.events = @ \o RhythmicFrom(get_time_groups(lh_notes), 1),
                                   !.sec = @ + 1]
                  ELSE [ped EXCEPT !.stage = "harmonic", !.voice = lh_notes, !.i = 1,
                                   !.current_bass_pitch = -1]
    /\ UNCHANGED <<pc, tm, tq, notes, sections, hum>>

(* One iteration of the loop of _generate_harmonic_pedal.                  *)
HarmonicNote ==
    /\ pc = "pedal"
    /\ ped.stage = "harmonic"
    /\ ped.i <= Len(ped.voice)
    /\ ped' = [ped EXCEPT
                 !.events = @ \o HarmonicNoteEvents(ped.voice, ped.i, ped.current_bass_pitch),
                 !.current_bass_pitch = ped.voice[ped.i].pitch,
                 !.i = @ + 1]
    /\ UNCHANGED <<pc, tm, tq, notes, sections, hum>>

(* The end of _generate_harmonic_pedal: the final disengage, and back to   *)
(* the section loop.                                                       *)
HarmonicEnd ==
    /\ pc = "pedal"
    /\ ped.stage = "harmonic"
    /\ ped.i > Len(ped.voice)
    /\ ped' = [ped EXCEPT !.events = Append(@, PedalUp(MaxEnd(ped.voice))),
                          !.stage = "sections", !.sec = @ + 1]
    /\ UNCHANGED <<pc, tm, tq, notes, sections, hum>>

(* One iteration of the loop of _generate_adaptive_pedal_driver.           *)
AdaptiveNote ==
    /\ pc = "pedal"
    /\ ped.stage = "adaptive"
    /\ ped.i <= Len(ped.voice)
    /\ ped' = [ped EXCEPT !.events = @ \o AdaptiveNoteEvents(ped.voice, ped.i),
                          !.i = @ + 1]
    /\ UNCHANGED <<pc, tm, tq, notes, sections, hum>>

(* The end of the adaptive driver: the final disengage; generate_events    *)
(* returns the driver's list.                                              *)
AdaptiveEnd ==
    /\ pc = "pedal"
    /\ ped.stage = "adaptive"
    /\ ped.i > Len(ped.voice)
    /\ ped' = [ped EXCEPT !.events = Append(@, PedalUp(MaxEnd(ped.voice))),
                          !.stage = "done"]
    /\ UNCHANGED <<pc, tm, tq, notes, sections, hum>>

----------------------------------------------------------------------------
(* Inputs of the TempoMap specification.                                   *)

MaxTempoEvents == 2

NoResult == <<>>

(* Tempo events as MIDI ingestion delivers them: times >= 0 in seconds     *)
(* (half-second grid), positive tempos, sorted by time; equal times occur. *)
EventTimes == {Norm(k, 2) : k \in 0..3}
Tempos == {300000, 500000, 1000000}
TempoEvent == EventTimes \X Tempos

IsSortedByTime(evs) ==
    \A i \in 1..(Len(evs) - 1) : RLe(evs[i][1], evs[i + 1][1])

TempoEventLists ==
    {evs \in UNION {[1..n -> TempoEvent] : n \in 0..MaxTempoEvents} :
        IsSortedByTime(evs)}

(* Query inputs: a quarter-second grid from before 0 to after the last     *)
(* breakpoint, and a half-beat grid extended by the breakpoints' beats.    *)
QueryTimes == {Norm(k, 4) : k \in (-1)..8}
QueryBeats(segs) ==
    {R(k) : k \in (-1)..7} \cup {segs[i][2] : i \in 1..Len(segs)}

(* TempoMap.__init__: sorted() leaves an already sorted list as it is and  *)
(* _build_segments runs in the constructor.                                *)
NewTempoMap(evs, sigs) ==
    [events |-> evs, time_signatures |-> sigs, segments |-> build_segments(evs),
     has_explicit_time_signatures |-> has_explicit_time_signatures(sigs)]

NoTempoMap == NewTempoMap(<<>>, <<>>)
NoQuery == [f |-> "none", prev |-> NoResult, last |-> NoResult, back |-> NoResult]
NoPedal == [stage |-> "idle"]
NoHum == [stage |-> "idle"]

InitTempo ==
    /\ pc = "tempo"
    /\ \E evs \in TempoEventLists : tm = NewTempoMap(evs, <<>>)
    /\ tq = NoQuery
    /\ notes = <<>>
    /\ sections = <<>>
    /\ ped = NoPedal
    /\ hum = NoHum

(* A call of time_to_beat; the previous call of the same function is kept  *)
(* beside it.                                                              *)
TimeToBeat(t) ==
    /\ pc = "tempo"
    /\ tq' = [f |-> "time_to_beat",
              prev |-> IF tq.f = "time_to_beat" THEN tq.last ELSE NoResult,
              last |-> [in |-> t, out |-> time_to_beat(tm.segments, t)],
              back |-> NoResult]
    /\ UNCHANGED <<pc, tm, notes, sections, ped, hum>>

BeatToTime(b) ==
    /\ pc = "tempo"
    /\ tq' = [f |-> "beat_to_time",
              prev |-> IF tq.f = "beat_to_time" THEN tq.last ELSE NoResult,
              last |-> [in |-> b, out |-> beat_to_time(tm.segments, b)],
              back |-> NoResult]
    /\ UNCHANGED <<pc, tm, notes, sections, ped, hum>>

(* beat_to_time applied to the result of the last time_to_beat call.       *)
RoundTrip ==
    /\ pc = "tempo"
    /\ tq.f = "time_to_beat"
    /\ tq.back = NoResult
    /\ tq' = [tq EXCEPT !.back = <<beat_to_time(tm.segments, tq.last.out)>>]
    /\ UNCHANGED <<pc, tm, notes, sections, ped, hum>>

NextTempo ==
    \/ \E t \in QueryTimes : TimeToBeat(t)
    \/ \E b \in QueryBeats(tm.segments) : BeatToTime(b)
    \/ RoundTrip

SpecTempo == InitTempo /\ [][NextTempo]_vars

(* C1: for a sorted tempo-event list with positive tempos and a time       *)
(* t >= 0, beat_to_time(time_to_beat(t)) = t, on breakpoints and after the *)
(* last one too.                                                           *)
C1_RoundTrip ==
    (tq.back # NoResult /\ RLe(Zero, tq.last.in)) => tq.back[1] = tq.last.in

(* The round trip of a time that is exactly a later breakpoint (the tempo  *)
(* changes there) has been taken.                                          *)
C1_Witness ==
    /\ tq.back # NoResult
    /\ Len(tm.segments) >= 2
    /\ tq.last.in = tm.segments[Len(tm.segments)][1]
    /\ RLt(Zero, tq.last.in)
    /\ tm.segments[Len(tm.segments)][3] # tm.segments[Len(tm.segments) - 1][3]

(* C2: time_to_beat and beat_to_time are non-decreasing: of two calls of   *)
(* the same function, the one with the smaller input has the smaller or    *)
(* equal result.                                                           *)
C2_Monotone ==
    (tq.prev # NoResult /\ RLe(tq.prev.in, tq.last.in))
        => RLe(tq.prev.out, tq.last.out)

(* Two beat_to_time calls on opposite sides of a tempo change, the first   *)
(* before the first breakpoint.                                            *)
C2_Witness ==
    /\ tq.f = "beat_to_time"
    /\ tq.prev # NoResult
    /\ RLt(tq.prev.in, Zero)
    /\ Len(tm.segments) >= 2
    /\ RLt(tm.segments[Len(tm.segments)][2], tq.last.in)
    /\ tm.segments[Len(tm.segments)][3] # tm.segments[Len(tm.segments) - 1][3]
    /\ RLt(tq.prev.out, tq.last.out)

----------------------------------------------------------------------------
(* SectionAnalyzer specification: notes on a half-second grid of onsets,   *)
(* at most one note per onset, analysed once.                              *)

MaxSlots == 6

SlotStart(k) == Norm(k - 1, 2)

(* What may sound at an onset: nothing, or a note of a hand and duration.  *)
NoKind == [hand |-> "none", pitch |-> 0, duration |-> Zero]
MeasureKinds ==
    {NoKind} \cup {[hand |-> "left", pitch |-> 48, duration |-> Ms(d)] : d \in {200, 400, 500}}
SilenceKinds ==
    {NoKind, [hand |-> "right", pitch |-> 72, duration |-> Ms(250)],
     [hand |-> "left", pitch |-> 48, duration |-> Ms(1000)]}

RECURSIVE NotesOfSlots(_, _)
NotesOfSlots(slots, k) ==
    IF k > Len(slots) THEN <<>>
    ELSE (IF slots[k] = NoKind THEN <<>>
          ELSE <<Note(k, slots[k].pitch, SlotStart(k), slots[k].duration, slots[k].hand)>>)
         \o NotesOfSlots(slots, k + 1)

SteadyTempo == <<<<Zero, 500000>>>>
FasterLater == <<<<Zero, 500000>>, <<R(1), 250000>>>>
TwoFour == <<<<Zero, 2, 4>>>>
TwoFourThenOneFour == <<<<Zero, 2, 4>>, <<R(2), 1, 4>>>>

InitSections ==
    /\ pc = "sections"
    /\ \/ \E slots \in [1..MaxSlots -> MeasureKinds], sigs \in {TwoFour, TwoFourThenOneFour} :
            /\ NotesOfSlots(slots, 1) # <<>>
            /\ notes = NotesOfSlots(slots, 1)
            /\ tm = NewTempoMap(SteadyTempo, sigs)
       \/ \E slots \in [1..MaxSlots -> SilenceKinds], evs \in {SteadyTempo, FasterLater} :
            /\ NotesOfSlots(slots, 1) # <<>>
            /\ notes = NotesOfSlots(slots, 1)
            /\ tm = NewTempoMap(evs, <<>>)
    /\ sections = <<>>
    /\ tq = NoQuery
    /\ ped = NoPedal
    /\ hum = NoHum

(* analyzer = SectionAnalyzer(final_notes, tempo_map); analyzer.analyze()  *)
Analyze ==
    /\ pc = "sections"
    /\ sections' = analyze(tm, notes)
    /\ pc' = "analyzed"
    /\ UNCHANGED <<tm, tq, notes, ped, hum>>

NextSections == Analyze

SpecSections == InitSections /\ [][NextSections]_vars

(* -- C3 ------------------------------------------------------------------ *)

(* The classified <<style, pace>> of measures i.. : an empty measure takes *)
(* the ones established before it (`before`), legato/normal at the start.  *)
RECURSIVE ClassesFrom(_, _, _)
ClassesFrom(ms, i, before) ==
    IF i > Len(ms) THEN <<>>
    ELSE LET in_m == NotesInMeasure(notes, ms[i][1], ms[i][2])
             cls == IF in_m # <<>> THEN classify_chunk(tm.segments, in_m, ms[i][1], ms[i][2])
                    ELSE before
         IN  <<cls>> \o ClassesFrom(ms, i + 1, cls)

MeasureClasses(ms) == ClassesFrom(ms, 1, <<"legato", "normal">>)

(* The first measures of the maximal runs of equal style, and a run's last *)
(* measure.                                                                *)
RunStarts(cls) == {i \in 1..Len(cls) : i = 1 \/ cls[i][1] # cls[i - 1][1]}

RECURSIVE RunEnd(_, _)
RunEnd(cls, r) ==
    IF r < Len(cls) /\ cls[r + 1][1] = cls[r][1] THEN RunEnd(cls, r + 1) ELSE r

(* The section the claim describes for the run of measures r..e.           *)
RunSection(ms, cls, r, e) ==
    [start_time |-> ms[r][1],
     end_time |-> ms[e][2],
     notes |-> NotesInMeasure(notes, ms[r][1], ms[e][2]),
     articulation_label |-> cls[r][1],
     pace_label |-> cls[r][2]]

SectionCore(sec) ==
    [start_time |-> sec.start_time, end_time |-> sec.end_time, notes |-> sec.notes,
     articulation_label |-> sec.articulation_label, pace_label |-> sec.pace_label]

(* The sections of the runs starting at measure r or later; with_empty     *)
(* says whether a run without notes counts.                                *)
RECURSIVE SectionsOfRuns(_, _, _, _)
SectionsOfRuns(ms, cls, r, with_empty) ==
    IF r > Len(ms) THEN <<>>
    ELSE LET e == RunEnd(cls, r)
             sec == RunSection(ms, cls, r, e)
         IN  (IF with_empty \/ sec.notes # <<>> THEN <<sec>> ELSE <<>>)
                 \o SectionsOfRuns(ms, cls, e + 1, with_empty)

EmittedCores == [k \in 1..Len(sections) |-> SectionCore(sections[k])]

MeasureBased == has_explicit_time_signatures(tm.time_signatures)

(* C3 as stated: in measure-based analysis the sections are exactly the    *)
(* maximal runs of consecutive measures of one style, an empty measure     *)
(* taking the style established before it (legato if none), each with the  *)
(* style and pace of the run's first measure.                              *)
C3_Original ==
    (pc = "analyzed" /\ MeasureBased)
        => LET ms == get_measure_boundaries(tm, MaxEnd(notes))
           IN  EmittedCores = SectionsOfRuns(ms, MeasureClasses(ms), 1, TRUE)

(* C3 amended: the sections are exactly the maximal runs that hold at      *)
(* least one note, in order, each from its first measure's start to its    *)
(* last measure's end with the style and pace of its first measure; a      *)
(* leading run of empty measures yields no section.                        *)
C3_RunsWithNotes ==
    (pc = "analyzed" /\ MeasureBased)
        => LET ms == get_measure_boundaries(tm, MaxEnd(notes))
           IN  EmittedCores = SectionsOfRuns(ms, MeasureClasses(ms), 1, FALSE)

(* Measures classified legato/legato/staccato: two sections, the first     *)
(* spanning measures 1-2 with measure 1's pace although measure 2 and the  *)
(* merged span have another pace, the second starting at measure 3.        *)
C3_Witness ==
    /\ pc = "analyzed" /\ MeasureBased
    /\ Len(sections) >= 2
    /\ sections[1].pace_label = "normal"
    /\ sections[2].articulation_label = "staccato"
    /\ LET ms == get_measure_boundaries(tm, MaxEnd(notes))
           cls == MeasureClasses(ms)
       IN  /\ Len(ms) >= 3
           /\ NotesInMeasure(notes, ms[1][1], ms[1][2]) # <<>>
           /\ NotesInMeasure(notes, ms[2][1], ms[2][2]) # <<>>
           /\ cls[1] = <<"legato", "normal">>
           /\ cls[2] = <<"legato", "slow">>
           /\ cls[3][1] = "staccato"
           /\ sections[1].start_time = ms[1][1]
           /\ sections[1].end_time = ms[3][1]
           /\ classify_pace_beats(sections[1].notes, sections[1].start_beat,
                                  sections[1].end_beat) = "slow"
           /\ sections[2].start_time = ms[3][1]

(* -- C4 ------------------------------------------------------------------ *)

(* The maximum end_time of notes 1..i-1 of the sorted input.               *)
EndBefore(i) ==
    CHOOSE e \in {end_time(notes[j]) : j \in 1..(i - 1)} :
        \A j \in 1..(i - 1) : RLe(end_time(notes[j]), e)

(* The tempo of the latest tempo event at or before time t.                *)
TempoActiveAt(t) ==
    LET at == {j \in 1..Len(tm.events) : RLe(tm.events[j][1], t)}
    IN  IF at = {} THEN 500000
        ELSE tm.events[CHOOSE j \in at : \A k \in at : k <= j][2]

(* The gap before note i in beats: seconds * 10^6 / tempo.                 *)
GapBeats(i) ==
    LET gap == RSub(notes[i].start_time, EndBefore(i))
    IN  Norm(gap[1] * 1000000, gap[2] * TempoActiveAt(EndBefore(i)))

SplitsAt(i) == RLt(R(2), GapBeats(i))

RECURSIVE SectionNotes(_)
SectionNotes(k) ==
    IF k > Len(sections) THEN <<>> ELSE sections[k].notes \o SectionNotes(k + 1)

(* C4: in silence-based analysis a new section starts at sorted note i     *)
(* (i >= 2 here, counting from 1) iff its gap to the maximum end_time of   *)
(* the notes before it, in beats of the tempo active at that maximum, is   *)
(* strictly greater than 2.0; each section spans from its first note's     *)
(* start to the maximum end_time of its notes.                             *)
C4_GrandPauses ==
    (pc = "analyzed" /\ ~MeasureBased)
        => /\ SectionNotes(1) = notes
           /\ \A k \in 1..Len(sections) :
                 /\ sections[k].notes # <<>>
                 /\ sections[k].start_time = sections[k].notes[1].start_time
                 /\ sections[k].end_time \in
                        {end_time(sections[k].notes[j]) : j \in 1..Len(sections[k].notes)}
                 /\ \A j \in 1..Len(sections[k].notes) :
                        RLe(end_time(sections[k].notes[j]), sections[k].end_time)
           /\ {sections[k].notes[1].id : k \in 1..Len(sections)}
                 = {notes[1].id} \cup {notes[i].id : i \in {j \in 2..Len(notes) : SplitsAt(j)}}

(* A gap of exactly 2.0 beats that does not split, measured from a running *)
(* maximum that is not the previous note's end and at a tempo that is not  *)
(* the initial one, and a longer gap that does split.                      *)
C4_Witness ==
    /\ pc = "analyzed" /\ ~MeasureBased
    /\ Len(sections) = 2
    /\ \E i \in 3..Len(notes) :
          /\ GapBeats(i) = R(2)
          /\ EndBefore(i) # end_time(notes[i - 1])
          /\ TempoActiveAt(EndBefore(i)) # 500000
          /\ \E k \in 1..2 : \E j \in 2..Len(sections[k].notes) :
                sections[k].notes[j] = notes[i]

----------------------------------------------------------------------------
(* PedalGenerator specification: left- and right-hand notes on onsets at   *)
(* 0, 0.2 and 0.55 s and, after a silence, from 1.7 s on; the sections are *)
(* those the analysis returns for the notes, without time signatures or   *)
(* in 2/4.                                                                 *)

MaxPedalSlots == 4

PedalSlotStart(k) ==
    IF k <= 2 THEN Ms(200 * (k - 1))
    ELSE IF k = 3 THEN Ms(550)
    ELSE Ms(1700 + 200 * (k - 4))

PedalKinds ==
    {NoKind,
     [hand |-> "left", pitch |-> 48, duration |-> Ms(200)],
     [hand |-> "left", pitch |-> 49, duration |-> Ms(100)],
     [hand |-> "left", pitch |-> 55, duration |-> Ms(30)],
     [hand |-> "left", pitch |-> 50, duration |-> Ms(500)],
     [hand |-> "right", pitch |-> 72, duration |-> Ms(200)]}

RECURSIVE NotesOfPedalSlots(_, _)
NotesOfPedalSlots(slots, k) ==
    IF k > Len(slots) THEN <<>>
    ELSE (IF slots[k] = NoKind THEN <<>>
          ELSE <<Note(k, slots[k].pitch, PedalSlotStart(k), slots[k].duration,
                      slots[k].hand)>>)
         \o NotesOfPedalSlots(slots, k + 1)

PedalStyles == {"none", "hybrid", "rhythmic", "legato"}

InitPedal ==
    /\ pc = "pedal"
    /\ \E slots \in [1..MaxPedalSlots -> PedalKinds], sigs \in {<<>>, TwoFour} :
          /\ notes = NotesOfPedalSlots(slots, 1)
          /\ tm = NewTempoMap(SteadyTempo, sigs)
          /\ sections = analyze(tm, notes)
    /\ \E style \in PedalStyles : ped = PedalCall(style)
    /\ tq = NoQuery
    /\ hum = NoHum

NextPedal ==
    \/ GenerateEvents
    \/ SectionStep
    \/ HarmonicNote
    \/ HarmonicEnd
    \/ AdaptiveNote
    \/ AdaptiveEnd

SpecPedal == InitPedal /\ [][NextPedal]_vars

IsUp(e) == e.action = "pedal" /\ e.key_char = "up"
IsDown(e) == e.action = "pedal" /\ e.key_char = "down"

(* C5: every disengage ('up') event has priority 0 and every engage        *)
(* ('down') event priority 1, so an up and a down with the same timestamp  *)
(* are ordered up first by (time, priority), for every style and input.    *)
C5_Priorities ==
    \A k \in 1..Len(ped.events) :
        LET e == ped.events[k]
        IN  /\ IsUp(e) \/ IsDown(e)
            /\ IsUp(e) => e.priority = 0
            /\ IsDown(e) => e.priority = 1
            /\ \A j \in 1..Len(ped.events) :
                  (IsUp(e) /\ IsDown(ped.events[j]) /\ e.time = ped.events[j].time)
                      => (KeyLe(e.time, e.priority, ped.events[j].time, ped.events[j].priority)
                          /\ ~KeyLe(ped.events[j].time, ped.events[j].priority,
                                    e.time, e.priority))

(* A finished call whose list holds an up and a down with one timestamp.   *)
C5_Witness ==
    /\ ped.stage = "done"
    /\ \E j, k \in 1..Len(ped.events) :
          /\ j < k
          /\ IsUp(ped.events[j]) /\ IsDown(ped.events[k])
          /\ ped.events[j].time = ped.events[k].time

(* The events a step appended to the list.                                 *)
Appended == SubSeq(ped'.events, Len(ped.events) + 1, Len(ped'.events))
KeepsEmitted == SubSeq(ped'.events, 1, Len(ped.events)) = ped.events

(* Bass note i of the harmonic pedal starts exactly at the end of bass     *)
(* note i - 1 and has another pitch.                                       *)
ZeroGapPitchChange(voice, i) ==
    /\ i > 1 /\ i <= Len(voice)
    /\ voice[i].start_time = end_time(voice[i - 1])
    /\ voice[i].pitch # voice[i - 1].pitch

(* C6: in the harmonic pedal a bass note (not the first) that starts with  *)
(* zero gap after the previous bass note's end and has another pitch gets  *)
(* exactly one disengage and one re-engage, both at its start_time, and by *)
(* (time, priority) the disengage is strictly before the re-engage.        *)
C6_TieBreak ==
    [][(ped.stage = "harmonic" /\ ZeroGapPitchChange(ped.voice, ped.i))
          => /\ KeepsEmitted
             /\ Len(Appended) = 2
             /\ IsUp(Appended[1]) /\ IsDown(Appended[2])
             /\ Appended[1].time = ped.voice[ped.i].start_time
             /\ Appended[2].time = ped.voice[ped.i].start_time
             /\ KeyLe(Appended[1].time, Appended[1].priority,
                      Appended[2].time, Appended[2].priority)
             /\ ~KeyLe(Appended[2].time, Appended[2].priority,
                       Appended[1].time, Appended[1].priority)]_vars

(* The harmonic pedal has just handled such a bass note.                   *)
C6_Witness ==
    /\ ped.stage = "harmonic"
    /\ ped.i > 2
    /\ ZeroGapPitchChange(ped.voice, ped.i - 1)
    /\ Len(ped.events) >= 3
    /\ IsUp(ped.events[Len(ped.events) - 1])
    /\ IsDown(ped.events[Len(ped.events)])
    /\ ped.events[Len(ped.events)].time = ped.voice[ped.i - 1].start_time
    /\ ped.events[Len(ped.events) - 1].time = ped.voice[ped.i - 1].start_time

(* The events expected of the adaptive driver between the driver notes     *)
(* curr and next_n.                                                        *)
PairEvents(curr, next_n) ==
    LET gap == RSub(next_n.start_time, RAdd(curr.start_time, curr.duration))
        interval == Abs(next_n.pitch - curr.pitch) % 12
    IN  IF RLt(Ms(350), gap)
        THEN <<[time |-> RAdd(curr.start_time, curr.duration), priority |-> 0,
                action |-> "pedal", key_char |-> "up"],
               [time |-> next_n.start_time, priority |-> 1,
                action |-> "pedal", key_char |-> "down"]>>
        ELSE IF interval = 1 \/ interval = 6
        THEN <<[time |-> next_n.start_time, priority |-> 0,
                action |-> "pedal", key_char |-> "up"],
               [time |-> RAdd(next_n.start_time, Ms(50)), priority |-> 1,
                action |-> "pedal", key_char |-> "down"]>>
        ELSE <<>>

(* C7: each iteration of the adaptive driver on a pair (curr, next)        *)
(* appends exactly: with gap > 0.35 s a disengage at curr.end and a        *)
(* re-engage at next.start; otherwise with interval 1 or 6 a disengage at  *)
(* next.start and a re-engage 0.05 s later; otherwise nothing (the first   *)
(* iteration engages at the first note's start before that).               *)
C7_AdaptivePairs ==
    [][(ped.stage = "adaptive" /\ ped.i < Len(ped.voice))
          => /\ KeepsEmitted
             /\ Appended =
                  (IF ped.i = 1
                   THEN <<[time |-> ped.voice[1].start_time, priority |-> 1,
                           action |-> "pedal", key_char |-> "down"]>>
                   ELSE <<>>)
                  \o PairEvents(ped.voice[ped.i], ped.voice[ped.i + 1])]_vars

(* A finished driver run over a fifth that emitted nothing, a dissonant    *)
(* pair that was repedalled and a silence that broke the sustain.          *)
C7_Witness ==
    /\ ped.stage = "done" /\ ped.style = "hybrid"
    /\ Len(ped.voice) = 4
    /\ Abs(ped.voice[2].pitch - ped.voice[1].pitch) % 12 = 7
    /\ Abs(ped.voice[3].pitch - ped.voice[2].pitch) % 12 = 6
    /\ RLe(RSub(ped.voice[3].start_time, end_time(ped.voice[2])), Ms(350))
    /\ RLt(Ms(350), RSub(ped.voice[4].start_time, end_time(ped.voice[3])))
    /\ Len(ped.events) = 6
    /\ ped.events[2] = PedalUp(ped.voice[3].start_time)
    /\ ped.events[3] = PedalDown(RAdd(ped.voice[3].start_time, Ms(50)))
    /\ ped.events[4] = PedalUp(end_time(ped.voice[3]))
    /\ ped.events[5] = PedalDown(ped.voice[4].start_time)

(* The list is in (time, priority) order.                                  *)
OrderedByKey(events) ==
    \A k \in 2..Len(events) :
        KeyLe(events[k - 1].time, events[k - 1].priority,
              events[k].time, events[k].priority)

C9_FinalRelease ==
    (ped.stage = "done" /\ ped.style = "hybrid" /\ ped.voice # <<>>)
        => /\ ped.events[Len(ped.events)] =
                [time |-> MaxEnd(ped.voice), priority |-> 0,
                 action |-> "pedal", key_char |-> "up"]
           /\ \A k \in 1..Len(ped.events) :
                 IsDown(ped.events[k]) => RLe(ped.events[k].time, MaxEnd(ped.voice))

----------------------------------------------------------------------------
(* analysis.py: Humanizer                                                  *)

MIN_DURATION == Ms(30)
ROLL_STEP == Ms(6)

(* round(x, 2): the nearest multiple of 0.01, a tie going to the even one. *)
Round2(x) ==
    LET q == (x[1] * 100) \div x[2]
        r == x[1] * 100 - q * x[2]
    IN  IF 2 * r < x[2] THEN Norm(q, 100)
        ELSE IF 2 * r > x[2] THEN Norm(q + 1, 100)
        ELSE IF q % 2 = 0 THEN Norm(q, 100)
        ELSE Norm(q + 1, 100)

(* max(-3*sigma, min(3*sigma, offset)) *)
ClampOffset(offset, sigma) ==
    RMax(RMul(R(-3), sigma), RMin(RMul(R(3), sigma), offset))

AnyFlag(config) ==
    \/ config.vary_timing
    \/ config.vary_articulation
    \/ config.enable_drift_correction
    \/ config.enable_chord_roll

(* RollChord delaying the lowest note as well.                             *)
RollChordFromOne(config, group) ==
    IF config.enable_chord_roll /\ Len(group) > 1
    THEN LET by_pitch == SortByPitch(group)
         IN  [i \in 1..Len(group) |->
                [by_pitch[i] EXCEPT !.start_time = RAdd(@, RMul(R(i), ROLL_STEP))]]
    ELSE group

(* RollChord delaying the notes in the order of the list.                 *)
RollChordUnsorted(config, group) ==
    IF config.enable_chord_roll /\ Len(group) > 1
    THEN [i \in 1..Len(group) |->
            [group[i] EXCEPT !.start_time = RAdd(@, RMul(R(i - 1), ROLL_STEP))]]
    ELSE group

(* The chord roll: the group sorted by pitch, its i-th note (from 0)       *)
(* delayed by i * 0.006 s.                                                 *)
RollChord(config, group) ==
    IF config.enable_chord_roll /\ Len(group) > 1
    THEN LET by_pitch == SortByPitch(group)
         IN  [i \in 1..Len(group) |->
                [by_pitch[i] EXCEPT
                   !.start_time = RAdd(@, RMul(R(i - 1), ROLL_STEP))]]
    ELSE group

(* HumanizeNote without the floor on the duration.                         *)
HumanizeNoteNoFloor(config, note, group_timing_offset, current_drift, group_articulation) ==
    LET shifted == RAdd(note.start_time, group_timing_offset)
        drifted == IF config.enable_drift_correction
                   THEN RAdd(shifted, current_drift) ELSE shifted
    IN  [note EXCEPT !.start_time = drifted,
                     !.duration = RMul(note.duration, group_articulation)]

(* The update of one note of a group.                                      *)
HumanizeNote(config, note, group_timing_offset, current_drift, group_articulation) ==
    LET shifted == RAdd(note.start_time, group_timing_offset)
        drifted == IF config.enable_drift_correction
                   THEN RAdd(shifted, current_drift) ELSE shifted
        scaled == RMul(note.duration, group_articulation)
    IN  [note EXCEPT !.start_time = drifted,
                     !.duration = IF RLt(scaled, MIN_DURATION) THEN MIN_DURATION
                                  ELSE scaled]

(* A list of Note references after the Note objects of `group` have been   *)
(* mutated.                                                                *)
WithMutated(ns, group) ==
    [k \in 1..Len(ns) |->
        IF \E j \in 1..Len(group) : group[j].id = ns[k].id
        THEN LET j == CHOOSE j \in 1..Len(group) : group[j].id = ns[k].id
             IN  group[j]
        ELSE ns[k]]

(* The sections, whose note lists refer to the same Note objects.          *)
SectionsWithMutated(secs, group) ==
    [k \in 1..Len(secs) |-> [secs[k] EXCEPT !.notes = WithMutated(@, group)]]

HumanizerCall(config, hand, resync_points) ==
    [stage |-> "start", config |-> config, hand |-> hand,
     resync_points |-> resync_points, time_groups |-> <<>>, g |-> 0,
     left_hand_drift |-> Zero, right_hand_drift |-> Zero]

(* apply_to_hand entering its loop whatever the flags.                     *)
EnterHandUnguarded(h, ns) ==
    [h EXCEPT !.stage = "groups", !.time_groups = get_time_groups(ns), !.g = 1]

(* apply_to_hand up to its loop, for the Humanizer h and the list ns: it   *)
(* returns at once when no flag is set.                                    *)
EnterHand(h, ns) ==
    IF ~AnyFlag(h.config) THEN [h EXCEPT !.stage = "done"]
    ELSE [h EXCEPT !.stage = "groups", !.time_groups = get_time_groups(ns), !.g = 1]

(* GroupResult shifting the notes by the drift read before the decay.     *)
GroupResultStaleDrift(h, gauss, uniform) ==
    LET config == h.config
        group == h.time_groups[h.g]
        is_resync_point == Round2(group[1].start_time) \in h.resync_points
        drift_before == IF h.hand = "left" THEN h.left_hand_drift
                        ELSE h.right_hand_drift
        current_drift == IF config.enable_drift_correction /\ is_resync_point
                         THEN RMul(drift_before, config.drift_decay_factor)
                         ELSE drift_before
        group_timing_offset ==
            IF config.vary_timing
            THEN ClampOffset(RMul(gauss, config.timing_variance), config.timing_variance)
            ELSE Zero
        group_articulation ==
            IF config.vary_articulation
            THEN RSub(config.articulation, RMul(uniform, Norm(1, 10)))
            ELSE config.articulation
        rolled == RollChord(config, group)
        mutated == [i \in 1..Len(rolled) |->
                      HumanizeNote(config, rolled[i], group_timing_offset,
                                   drift_before, group_articulation)]
        drift_after == IF config.enable_drift_correction
                       THEN RAdd(current_drift, group_timing_offset)
                       ELSE current_drift
    IN  [mutated |-> mutated,
         hum |-> [h EXCEPT
                    !.g = @ + 1,
                    !.left_hand_drift = IF h.hand = "left" THEN drift_after ELSE @,
                    !.right_hand_drift = IF h.hand = "left" THEN @ ELSE drift_after]]

(* One iteration of `for group in time_groups` for the Humanizer h, gauss  *)
(* and uniform being the values random.gauss (in units of sigma) and       *)
(* random.random return: the mutated group and the Humanizer afterwards.   *)
GroupResult(h, gauss, uniform) ==
    LET config == h.config
        group == h.time_groups[h.g]
        is_resync_point == Round2(group[1].start_time) \in h.resync_points
        drift_before == IF h.hand = "left" THEN h.left_hand_drift
                        ELSE h.right_hand_drift
        current_drift == IF config.enable_drift_correction /\ is_resync_point
                         THEN RMul(drift_before, config.drift_decay_factor)
                         ELSE drift_before
        group_timing_offset ==
            IF config.vary_timing
            THEN ClampOffset(RMul(gauss, config.timing_variance), config.timing_variance)
            ELSE Zero
        group_articulation ==
            IF config.vary_articulation
            THEN RSub(config.articulation, RMul(uniform, Norm(1, 10)))
            ELSE config.articulation
        rolled == RollChord(config, group)
        mutated == [i \in 1..Len(rolled) |->
                      HumanizeNote(config, rolled[i], group_timing_offset,
                                   current_drift, group_articulation)]
        drift_after == IF config.enable_drift_correction
                       THEN RAdd(current_drift, group_timing_offset)
                       ELSE current_drift
    IN  [mutated |-> mutated,
         hum |-> [h EXCEPT
                    !.g = @ + 1,
                    !.left_hand_drift = IF h.hand = "left" THEN drift_after ELSE @,
                    !.right_hand_drift = IF h.hand = "left" THEN @ ELSE drift_after]]

ApplyToHand ==
    /\ pc = "humanize"
    /\ hum.stage = "start"
    /\ hum' = EnterHand(hum, notes)
    /\ UNCHANGED <<pc, tm, tq, notes, sections, ped>>

HumanizeGroupWith(gauss, uniform) ==
    LET r == GroupResult(hum, gauss, uniform)
    IN  /\ notes' = WithMutated(notes, r.mutated)
        /\ sections' = SectionsWithMutated(sections, r.mutated)
        /\ hum' = r.hum

GaussDraws == {R(-4), Zero, R(4)}
UniformDraws == {Zero, Norm(1, 2)}

(* One iteration of the loop of apply_to_hand.                             *)
HumanizeGroup ==
    /\ pc = "humanize"
    /\ hum.stage = "groups"
    /\ hum.g <= Len(hum.time_groups)
    /\ \E gauss \in GaussDraws, uniform \in UniformDraws :
          HumanizeGroupWith(gauss, uniform)
    /\ UNCHANGED <<pc, tm, tq, ped>>

(* The loop is over: apply_to_hand returns.                                *)
ApplyToHandReturn ==
    /\ pc = "humanize"
    /\ hum.stage = "groups"
    /\ hum.g > Len(hum.time_groups)
    /\ hum' = [hum EXCEPT !.stage = "done"]
    /\ UNCHANGED <<pc, tm, tq, notes, sections, ped>>

(* np.sin(rel_pos * np.pi) by the piecewise-linear approximation           *)
(* 1 - |2 p - 1|, exact at p = 0, 1/2 and 1 and of the sign of the sine    *)
(* for -1 < p < 2.                                                         *)
SinPi(p) == RSub(R(1), RAbs(RSub(RMul(R(2), p), R(1))))

PaceMultiplier(pace_label, invert_sway) ==
    IF pace_label = "fast" THEN (IF invert_sway THEN Norm(3, 2) ELSE Norm(1, 4))
    ELSE IF pace_label = "slow" THEN (IF invert_sway THEN Norm(1, 4) ELSE Norm(3, 2))
    ELSE R(1)

HasId(ns, id) == \E k \in 1..Len(ns) : ns[k].id = id

(* The notes of `section` after the inner loop of apply_tempo_rubato, the  *)
(* notes missing from all_notes left alone.                                *)
SwayedNotes(config, section, all_notes) ==
    LET section_duration == RSub(section.end_time, section.start_time)
        intensity == RMul(config.tempo_sway_intensity,
                          PaceMultiplier(section.pace_label, config.invert_tempo_sway))
    IN  [k \in 1..Len(section.notes) |->
           LET note == section.notes[k]
               rel_pos == RDiv(RSub(note.start_time, section.start_time),
                               section_duration)
               time_shift == RMul(SinPi(rel_pos), intensity)
           IN  IF HasId(all_notes, note.id)
               THEN [note EXCEPT !.start_time = RSub(@, time_shift)]
               ELSE note]

(* The loop over the sections swaying the short sections too.              *)
RECURSIVE RubatoFromAnyDuration(_, _, _, _)
RubatoFromAnyDuration(config, secs, all_notes, k) ==
    IF k > Len(secs) THEN [notes |-> all_notes, sections |-> secs]
    ELSE LET swayed == SwayedNotes(config, secs[k], all_notes)
         IN  RubatoFromAnyDuration(config, SectionsWithMutated(secs, swayed),
                                   WithMutated(all_notes, swayed), k + 1)

(* The loop over the sections from section k on: the note lists after it.  *)
RECURSIVE RubatoFrom(_, _, _, _)
RubatoFrom(config, secs, all_notes, k) ==
    IF k > Len(secs) THEN [notes |-> all_notes, sections |-> secs]
    ELSE IF RLt(RSub(secs[k].end_time, secs[k].start_time), R(1))
         THEN RubatoFrom(config, secs, all_notes, k + 1)
         ELSE LET swayed == SwayedNotes(config, secs[k], all_notes)
              IN  RubatoFrom(config, SectionsWithMutated(secs, swayed),
                             WithMutated(all_notes, swayed), k + 1)

(* apply_tempo_rubato(all_notes, sections), after apply_to_hand.           *)
ApplyTempoRubato ==
    /\ pc = "humanize"
    /\ hum.stage = "done"
    /\ LET r == IF ~hum.config.enable_tempo_sway
                THEN [notes |-> notes, sections |-> sections]
                ELSE RubatoFrom(hum.config, sections, notes, 1)
       IN  /\ notes' = r.notes
           /\ sections' = r.sections
    /\ hum' = [hum EXCEPT !.stage = "swayed"]
    /\ UNCHANGED <<pc, tm, tq, ped>>

----------------------------------------------------------------------------
(* Humanizer specification: the sections of one hand's notes on onsets     *)
(* 10 ms apart are analysed, then a new Humanizer runs apply_to_hand and   *)
(* apply_tempo_rubato once each.                                           *)

MaxHumSlots == 3

HumSlotStart(k) == Ms(10 * (k - 1))

HumKinds ==
    {NoKind,
     [pitch |-> 48, duration |-> Ms(40)],
     [pitch |-> 60, duration |-> Ms(1200)]}

RECURSIVE NotesOfHumSlots(_, _, _)
NotesOfHumSlots(slots, hand, k) ==
    IF k > Len(slots) THEN <<>>
    ELSE (IF slots[k] = NoKind THEN <<>>
          ELSE <<Note(k, slots[k].pitch, HumSlotStart(k), slots[k].duration, hand)>>)
         \o NotesOfHumSlots(slots, hand, k + 1)

HumConfigs ==
    [vary_timing : BOOLEAN, timing_variance : {Ms(10)},
     vary_articulation : BOOLEAN, articulation : {Norm(95, 100), Norm(1, 2)},
     enable_drift_correction : BOOLEAN, drift_decay_factor : {Norm(25, 100)},
     enable_chord_roll : BOOLEAN,
     enable_tempo_sway : BOOLEAN, tempo_sway_intensity : {Ms(20)},
     invert_tempo_sway : {FALSE}]

ResyncSets == {{}, {Ms(0), Ms(20)}}

InitHuman ==
    /\ pc = "humanize"
    /\ \E slots \in [1..MaxHumSlots -> HumKinds], hand \in {"left", "right"},
          config \in HumConfigs, resync_points \in ResyncSets :
          /\ notes = NotesOfHumSlots(slots, hand, 1)
          /\ hum = HumanizerCall(config, hand, resync_points)
    /\ tm = NewTempoMap(SteadyTempo, <<>>)
    /\ sections = analyze(tm, notes)
    /\ tq = NoQuery
    /\ ped = NoPedal

NextHuman ==
    \/ ApplyToHand
    \/ HumanizeGroup
    \/ ApplyToHandReturn
    \/ ApplyTempoRubato

SpecHuman == InitHuman /\ [][NextHuman]_vars

(* C10: after apply_to_hand, for every configuration and every sequence of *)
(* draws, the hand's notes are still in non-decreasing start_time order.   *)
C10_OrderKept ==
    hum.stage = "done"
        => \A k \in 2..Len(notes) : RLe(notes[k - 1].start_time, notes[k].start_time)

(* Note k of the list is a member of the group that the next iteration of  *)
(* apply_to_hand processes.                                                *)
InCurrentGroup(k) ==
    \E j \in 1..Len(hum.time_groups[hum.g]) :
        hum.time_groups[hum.g][j].id = notes[k].id

(* The articulation multipliers a group can get under config.              *)
Multipliers(config) ==
    IF config.vary_articulation
    THEN {RSub(config.articulation, RMul(u, Norm(1, 10))) : u \in UniformDraws}
    ELSE {config.articulation}

(* C11: an iteration of apply_to_hand leaves every note of its group with  *)
(* duration max(0.03, previous duration * the group's articulation         *)
(* multiplier), so never below 0.03 s and exactly 0.03 s when the product  *)
(* is below it; the other notes keep their duration.                       *)
C11_DurationFloor ==
    [][(hum.stage = "groups" /\ hum.g <= Len(hum.time_groups))
          => \E mult \in Multipliers(hum.config) :
                \A k \in 1..Len(notes) :
                    IF InCurrentGroup(k)
                    THEN /\ notes'[k].duration =
                              RMax(Ms(30), RMul(notes[k].duration, mult))
                         /\ RLe(Ms(30), notes'[k].duration)
                         /\ RLt(RMul(notes[k].duration, mult), Ms(30))
                                => notes'[k].duration = Ms(30)
                    ELSE notes'[k].duration = notes[k].duration]_vars

(* A finished call that has raised one duration to the floor (40 ms halved) *)
(* and scaled another (1.2 s halved).                                       *)
C11_Witness ==
    /\ hum.stage = "done"
    /\ AnyFlag(hum.config)
    /\ \E j, k \in 1..Len(notes) :
          /\ notes[j].duration = Ms(30)
          /\ notes[k].duration = Ms(600)

(* A step of apply_to_hand is about to be taken.                           *)
InApplyToHand == hum.stage = "start" \/ hum.stage = "groups"

RandomAndDriftOff(config) ==
    /\ ~config.vary_timing
    /\ ~config.vary_articulation
    /\ ~config.enable_drift_correction

DriftKept ==
    /\ hum'.left_hand_drift = hum.left_hand_drift
    /\ hum'.right_hand_drift = hum.right_hand_drift

TimesKept ==
    \A k \in 1..Len(notes) :
        /\ notes'[k].start_time = notes[k].start_time
        /\ notes'[k].duration = notes[k].duration

(* How many members of the current group sort before note k by pitch, the  *)
(* group's order deciding between equal pitches.                           *)
RollRank(k) ==
    LET group == hum.time_groups[hum.g]
        pos == CHOOSE j \in 1..Len(group) : group[j].id = notes[k].id
    IN  Cardinality({j \in 1..Len(group) :
                        \/ group[j].pitch < group[pos].pitch
                        \/ (group[j].pitch = group[pos].pitch /\ j < pos)})

(* C13 as stated: with vary_timing, vary_articulation and                  *)
(* enable_drift_correction off, apply_to_hand changes no start_time, no    *)
(* duration and no drift accumulator, whatever the rest of the             *)
(* configuration.                                                          *)
C13_Original ==
    [][(InApplyToHand /\ RandomAndDriftOff(hum.config)) => (TimesKept /\ DriftKept)]_vars

(* C13: with vary_timing, vary_articulation and enable_drift_correction    *)
(* off, apply_to_hand never changes a drift accumulator, and changes no    *)
(* note when enable_chord_roll is off too; with enable_chord_roll on, each *)
(* iteration gives the notes of its group the duration                     *)
(* max(0.03, duration * articulation) and, in a group of several notes,    *)
(* delays the member with the k-th lowest pitch by k * 6 ms, the other     *)
(* notes staying as they are.                                              *)
C13_OnlyRollAndArticulation ==
    [][(InApplyToHand /\ RandomAndDriftOff(hum.config))
          => /\ DriftKept
             /\ ~hum.config.enable_chord_roll => TimesKept
             /\ (hum.config.enable_chord_roll /\ hum.stage = "start") => TimesKept
             /\ (hum.config.enable_chord_roll /\ hum.stage = "groups"
                    /\ hum.g > Len(hum.time_groups)) => TimesKept
             /\ (hum.config.enable_chord_roll /\ hum.stage = "groups"
                    /\ hum.g <= Len(hum.time_groups))
                  => \A k \in 1..Len(notes) :
                        IF InCurrentGroup(k)
                        THEN /\ notes'[k].duration =
                                  RMax(Ms(30), RMul(notes[k].duration,
                                                    hum.config.articulation))
                             /\ notes'[k].start_time =
                                  IF Len(hum.time_groups[hum.g]) > 1
                                  THEN RAdd(notes[k].start_time,
                                            RMul(R(RollRank(k)), Ms(6)))
                                  ELSE notes[k].start_time
                        ELSE /\ notes'[k].start_time = notes[k].start_time
                             /\ notes'[k].duration = notes[k].duration]_vars

(* A finished call with only enable_chord_roll set that has rolled a chord *)
(* whose later note has the lower pitch, and scaled the durations.         *)
C13_Witness ==
    /\ hum.stage = "done"
    /\ RandomAndDriftOff(hum.config)
    /\ hum.config.enable_chord_roll
    /\ Len(notes) >= 2
    /\ notes[1].pitch > notes[2].pitch
    /\ notes[1].start_time = RAdd(HumSlotStart(notes[1].id), Ms(6))
    /\ notes[2].start_time = HumSlotStart(notes[2].id)
    /\ notes[2].duration = RMul(Ms(40), hum.config.articulation)

(* C14: apply_to_hand with vary_timing, vary_articulation,                 *)
(* enable_drift_correction and enable_chord_roll all unset returns at once *)
(* and changes no note, no section and no drift accumulator, and           *)
(* apply_tempo_rubato with enable_tempo_sway unset does the same.          *)
C14_UnsetFlagsNoOp ==
    [][/\ (InApplyToHand /\ ~AnyFlag(hum.config))
            => /\ notes' = notes
               /\ sections' = sections
               /\ DriftKept
               /\ hum'.stage = "done"
       /\ (hum.stage = "done" /\ ~hum.config.enable_tempo_sway)
            => /\ notes' = notes
               /\ sections' = sections
               /\ DriftKept]_vars

(* Both entry points have returned with none of their flags set, on a list *)
(* that holds a chord, every note still at its original start.             *)
C14_Witness ==
    /\ hum.stage = "swayed"
    /\ ~AnyFlag(hum.config)
    /\ ~hum.config.enable_tempo_sway
    /\ Len(notes) >= 2
    /\ Len(get_time_groups(notes)) < Len(notes)
    /\ \A k \in 1..Len(notes) : notes[k].start_time = HumSlotStart(notes[k].id)

----------------------------------------------------------------------------
(* Twin specification: two Humanizers, hum[1] and hum[2], run apply_to_hand *)
(* on their own copies notes[1] and notes[2] of one input, fed the same     *)
(* draws; the drift left by an earlier call may be there at the start.      *)

TwinConfigs == {config \in HumConfigs : ~config.enable_tempo_sway}

(* The drift an earlier call can have left: none, or one offset of 3 sigma. *)
InitialDrifts(config) ==
    IF config.enable_drift_correction /\ config.vary_timing
    THEN {Zero, RMul(R(3), config.timing_variance)}
    ELSE {Zero}

InitTwin ==
    /\ pc = "twin"
    /\ \E slots \in [1..MaxHumSlots -> HumKinds], hand \in {"left", "right"},
          config \in TwinConfigs, resync_points \in ResyncSets :
          \E drift \in InitialDrifts(config) :
             LET h == [HumanizerCall(config, hand, resync_points) EXCEPT
                          !.left_hand_drift = drift, !.right_hand_drift = drift]
                 ns == NotesOfHumSlots(slots, hand, 1)
             IN  /\ hum = <<h, h>>
                 /\ notes = <<ns, ns>>
    /\ tm = NoTempoMap
    /\ tq = NoQuery
    /\ sections = <<>>
    /\ ped = NoPedal

(* Both runs enter apply_to_hand.                                          *)
TwinApplyToHand ==
    /\ pc = "twin"
    /\ hum[1].stage = "start"
    /\ hum' = <<EnterHand(hum[1], notes[1]), EnterHand(hum[2], notes[2])>>
    /\ UNCHANGED <<pc, tm, tq, notes, sections, ped>>

(* The second run's iteration taking its uniform draw from a source of its *)
(* own.                                                                    *)
TwinGroupOwnSource ==
    /\ pc = "twin"
    /\ hum[1].stage = "groups"
    /\ hum[1].g <= Len(hum[1].time_groups)
    /\ hum[2].g <= Len(hum[2].time_groups)
    /\ \E gauss \in GaussDraws, uniform \in UniformDraws, own \in UniformDraws :
          LET r1 == GroupResult(hum[1], gauss, uniform)
              r2 == GroupResult(hum[2], gauss, own)
          IN  /\ hum' = <<r1.hum, r2.hum>>
              /\ notes' = <<WithMutated(notes[1], r1.mutated),
                            WithMutated(notes[2], r2.mutated)>>
    /\ UNCHANGED <<pc, tm, tq, sections, ped>>

(* One iteration of the loop in both runs, on the same draws.              *)
TwinGroup ==
    /\ pc = "twin"
    /\ hum[1].stage = "groups"
    /\ hum[1].g <= Len(hum[1].time_groups)
    /\ hum[2].g <= Len(hum[2].time_groups)
    /\ \E gauss \in GaussDraws, uniform \in UniformDraws :
          LET r1 == GroupResult(hum[1], gauss, uniform)
              r2 == GroupResult(hum[2], gauss, uniform)
          IN  /\ hum' = <<r1.hum, r2.hum>>
              /\ notes' = <<WithMutated(notes[1], r1.mutated),
                            WithMutated(notes[2], r2.mutated)>>
    /\ UNCHANGED <<pc, tm, tq, sections, ped>>

(* Both runs return.                                                       *)
TwinReturn ==
    /\ pc = "twin"
    /\ hum[1].stage = "groups"
    /\ hum[1].g > Len(hum[1].time_groups)
    /\ hum' = <<[hum[1] EXCEPT !.stage = "done"], [hum[2] EXCEPT !.stage = "done"]>>
    /\ UNCHANGED <<pc, tm, tq, notes, sections, ped>>

NextTwin ==
    \/ TwinApplyToHand
    \/ TwinGroup
    \/ TwinReturn

SpecTwin == InitTwin /\ [][NextTwin]_vars

----------------------------------------------------------------------------
(* analysis.py: FingeringEngine                                            *)

MIDDLE_C == 60

HandOfPitch(pitch) == IF pitch < MIDDLE_C THEN "left" ELSE "right"

(* _assign_single_note: the note after the call.                           *)
assign_single_note(note) ==
    IF note.hand # "unknown" THEN note
    ELSE [note EXCEPT !.hand = HandOfPitch(note.pitch)]

RECURSIVE SumPitch(_)
SumPitch(ns) ==
    IF ns = <<>> THEN 0 ELSE Head(ns).pitch + SumPitch(Tail(ns))

IsUnknown(n) == n.hand = "unknown"

(* _assign_chord with the average taken over all members of the chord.     *)
assign_chord_average_all(chord_notes) ==
    LET unassigned == chord_notes
    IN  IF unassigned = <<>> THEN chord_notes
        ELSE LET avg_pitch == Norm(SumPitch(unassigned), Len(unassigned))
                 hand == IF RLt(avg_pitch, R(MIDDLE_C)) THEN "left" ELSE "right"
             IN  [i \in 1..Len(chord_notes) |->
                    IF chord_notes[i].hand = "unknown"
                    THEN [chord_notes[i] EXCEPT !.hand = hand]
                    ELSE chord_notes[i]]

(* _assign_chord: the members of the chord after the call.                 *)
assign_chord(chord_notes) ==
    LET unassigned == SelectSeq(chord_notes, IsUnknown)
    IN  IF unassigned = <<>> THEN chord_notes
        ELSE LET avg_pitch == Norm(SumPitch(unassigned), Len(unassigned))
                 hand == IF RLt(avg_pitch, R(MIDDLE_C)) THEN "left" ELSE "right"
             IN  [i \in 1..Len(chord_notes) |->
                    IF chord_notes[i].hand = "unknown"
                    THEN [chord_notes[i] EXCEPT !.hand = hand]
                    ELSE chord_notes[i]]

(* The state of a call of assign_hands: the groups and the loop index.     *)
FingeringCall == [f |-> "assign_hands", stage |-> "start", time_groups |-> <<>>, g |-> 0]

(* assign_hands up to its loop.                                            *)
AssignHands ==
    /\ pc = "fingering"
    /\ tq.stage = "start"
    /\ tq' = [tq EXCEPT !.stage = "groups", !.time_groups = get_time_groups(notes),
                        !.g = 1]
    /\ UNCHANGED <<pc, tm, notes, sections, ped, hum>>

(* One iteration of `for group in time_groups`; the notes are the objects  *)
(* of the caller's list, so the list sees the new labels.                  *)
AssignGroup ==
    /\ pc = "fingering"
    /\ tq.stage = "groups"
    /\ tq.g <= Len(tq.time_groups)
    /\ LET group == tq.time_groups[tq.g]
           assigned == IF Len(group) = 1 THEN <<assign_single_note(group[1])>>
                       ELSE assign_chord(group)
       IN  notes' = WithMutated(notes, assigned)
    /\ tq' = [tq EXCEPT !.g = @ + 1]
    /\ UNCHANGED <<pc, tm, sections, ped, hum>>

(* The loop is over.                                                       *)
AssignHandsReturn ==
    /\ pc = "fingering"
    /\ tq.stage = "groups"
    /\ tq.g > Len(tq.time_groups)
    /\ tq' = [tq EXCEPT !.stage = "done"]
    /\ UNCHANGED <<pc, tm, notes, sections, ped, hum>>

----------------------------------------------------------------------------
(* Fingering specification: a list sorted by start as handle_play passes   *)
(* it, with starts 0, 5, 10, 20 and 50 ms, labeled or not.                 *)

MaxFingerSlots == 5

FingerSlotStart(k) ==
    IF k <= 3 THEN Ms(5 * (k - 1))
    ELSE IF k = 4 THEN Ms(20)
    ELSE Ms(50 + 5 * (k - 5))

FingerKinds ==
    {NoKind,
     [pitch |-> 48, hand |-> "unknown"],
     [pitch |-> 60, hand |-> "unknown"],
     [pitch |-> 72, hand |-> "unknown"],
     [pitch |-> 48, hand |-> "left"],
     [pitch |-> 72, hand |-> "right"]}

RECURSIVE NotesOfFingerSlots(_, _)
NotesOfFingerSlots(slots, k) ==
    IF k > Len(slots) THEN <<>>
    ELSE (IF slots[k] = NoKind THEN <<>>
          ELSE <<Note(k, slots[k].pitch, FingerSlotStart(k), Ms(200), slots[k].hand)>>)
         \o NotesOfFingerSlots(slots, k + 1)

InitFingering ==
    /\ pc = "fingering"
    /\ \E slots \in [1..MaxFingerSlots -> FingerKinds] :
          notes = NotesOfFingerSlots(slots, 1)
    /\ tq = FingeringCall
    /\ tm = NoTempoMap
    /\ sections = <<>>
    /\ ped = NoPedal
    /\ hum = NoHum

NextFingering ==
    \/ AssignHands
    \/ AssignGroup
    \/ AssignHandsReturn

SpecFingering == InitFingering /\ [][NextFingering]_vars

(* The members of the group being assigned that have no label yet.         *)
UnknownOfGroup ==
    LET group == tq.time_groups[tq.g]
    IN  {j \in 1..Len(group) : group[j].hand = "unknown"}

(* The sum over the unlabeled members of pitch - 60: negative exactly when *)
(* their average pitch is below 60.                                        *)
RECURSIVE ExcessOver60(_, _)
ExcessOver60(group, js) ==
    IF js = {} THEN 0
    ELSE LET j == CHOOSE x \in js : TRUE
         IN  (group[j].pitch - 60) + ExcessOver60(group, js \ {j})

InAssignedGroup(k) ==
    \E j \in 1..Len(tq.time_groups[tq.g]) : tq.time_groups[tq.g][j].id = notes[k].id

(* C15: an iteration of assign_hands changes only the hand of the          *)
(* unlabeled notes of its group: all of them get the same hand, left iff   *)
(* the average pitch of the unlabeled members alone is below 60 (for a     *)
(* single note: iff its pitch is below 60); labeled notes and every other  *)
(* field stay as they are, and when the call returns no note is unknown.   *)
C15_OnlyUnknownRelabeled ==
    [][(pc = "fingering" /\ tq.stage = "groups")
          => /\ tq.g > Len(tq.time_groups)
                  => /\ notes' = notes
                     /\ \A k \in 1..Len(notes') : notes'[k].hand # "unknown"
             /\ tq.g <= Len(tq.time_groups)
                  => LET group == tq.time_groups[tq.g]
                         hand == IF ExcessOver60(group, UnknownOfGroup) < 0
                                 THEN "left" ELSE "right"
                     IN  /\ Len(notes') = Len(notes)
                         /\ \A k \in 1..Len(notes) :
                              IF InAssignedGroup(k) /\ notes[k].hand = "unknown"
                              THEN /\ notes'[k] = [notes[k] EXCEPT !.hand = hand]
                                   /\ Len(group) = 1
                                        => (notes'[k].hand = "left"
                                               <=> notes[k].pitch < 60)
                              ELSE notes'[k] = notes[k]]_vars

(* A finished call on a chord of an unlabeled 60 and a labeled left 48,    *)
(* whose average with the labeled note would be below 60: the unlabeled    *)
(* note went right; a single unlabeled 48 later in the list went left.     *)
C15_Witness ==
    /\ pc = "fingering"
    /\ tq.stage = "done"
    /\ Len(tq.time_groups) = 2
    /\ Len(tq.time_groups[1]) = 2
    /\ \E j, k \in 1..2 :
          /\ tq.time_groups[1][j].hand = "left"
          /\ tq.time_groups[1][j].pitch = 48
          /\ tq.time_groups[1][k].hand = "unknown"
          /\ tq.time_groups[1][k].pitch = 60
    /\ tq.time_groups[2] = <<Note(4, 48, FingerSlotStart(4), Ms(200), "unknown")>>
    /\ \A k \in 1..Len(notes) :
          notes[k].hand = (IF notes[k].pitch = 60 THEN "right" ELSE "left")

----------------------------------------------------------------------------
(* Calls specification: a TempoMap built from a tempo list and a signature *)
(* list, a list of notes sorted by start, and calls of                     *)
(* _classify_bass_articulation and get_measure_boundaries on them.         *)

MaxCallSlots == 4

(* The first two slots share the start 0; the others follow 0.5 s apart.   *)
CallSlotStart(k) == IF k <= 2 THEN Zero ELSE Norm(k - 2, 2)

CallKinds ==
    {NoKind,
     [hand |-> "left", duration |-> Ms(150)],
     [hand |-> "left", duration |-> Ms(500)],
     [hand |-> "left", duration |-> Ms(1000)],
     [hand |-> "right", duration |-> Ms(500)]}

RECURSIVE NotesOfCallSlots(_, _)
NotesOfCallSlots(slots, k) ==
    IF k > Len(slots) THEN <<>>
    ELSE (IF slots[k] = NoKind THEN <<>>
          ELSE <<Note(k, 48, CallSlotStart(k), slots[k].duration, slots[k].hand)>>)
         \o NotesOfCallSlots(slots, k + 1)

LateTempo == <<<<R(1), 250000>>>>

CallTempoLists == {SteadyTempo, FasterLater, LateTempo}

CallSigLists ==
    {<<>>, DefaultSigs, TwoFour, TwoFourThenOneFour,
     <<<<Zero, 4, 8>>>>, <<<<R(1), 4, 4>>>>}

CallDurations == {Norm(1, 4), R(1), Norm(5, 2)}

InitCalls ==
    /\ pc = "calls"
    /\ \E evs \in CallTempoLists, sigs \in CallSigLists : tm = NewTempoMap(evs, sigs)
    /\ \E slots \in [1..MaxCallSlots -> CallKinds] : notes = NotesOfCallSlots(slots, 1)
    /\ tq = NoQuery
    /\ sections = <<>>
    /\ ped = NoPedal
    /\ hum = NoHum

(* Both calls are pure: one call per behaviour shows all there is.         *)
ClassifyBassArticulation ==
    /\ pc = "calls"
    /\ tq = NoQuery
    /\ tq' = [f |-> "classify_bass_articulation", prev |-> NoResult,
              last |-> [in |-> notes,
                        out |-> classify_bass_articulation(tm.segments, notes)],
              back |-> NoResult]
    /\ UNCHANGED <<pc, tm, notes, sections, ped, hum>>

GetMeasureBoundaries(total_duration) ==
    /\ pc = "calls"
    /\ tq = NoQuery
    /\ tq' = [f |-> "get_measure_boundaries", prev |-> NoResult,
              last |-> [in |-> total_duration,
                        out |-> get_measure_boundaries(tm, total_duration)],
              back |-> NoResult]
    /\ UNCHANGED <<pc, tm, notes, sections, ped, hum>>

NextCalls ==
    \/ ClassifyBassArticulation
    \/ \E d \in CallDurations : GetMeasureBoundaries(d)

SpecCalls == InitCalls /\ [][NextCalls]_vars

(* The left-hand notes of the call's argument, in the order of the list,   *)
(* which is the order of their starts.                                     *)
LeftHand == SelectSeq(tq.last.in, LAMBDA n : n.hand = "left")

IoiBeats(lh, i) ==
    RSub(time_to_beat(tm.segments, lh[i + 1].start_time),
         time_to_beat(tm.segments, lh[i].start_time))

DurBeats(lh, i) ==
    RSub(time_to_beat(tm.segments, RAdd(lh[i].start_time, lh[i].duration)),
         time_to_beat(tm.segments, lh[i].start_time))

(* The consecutive pairs with a positive inter-onset interval.             *)
CountedPairs(lh) == {i \in 1..(Len(lh) - 1) : RLt(Zero, IoiBeats(lh, i))}

RECURSIVE CappedRatioSum(_, _)
CappedRatioSum(lh, pairs) ==
    IF pairs = {} THEN Zero
    ELSE LET i == CHOOSE x \in pairs : TRUE
             ratio == RDiv(DurBeats(lh, i), IoiBeats(lh, i))
         IN  RAdd(IF RLt(Norm(12, 10), ratio) THEN Norm(12, 10) ELSE ratio,
                  CappedRatioSum(lh, pairs \ {i}))

(* C16: classify_bass_articulation looks at the left-hand notes only; with *)
(* fewer than two of them, or no consecutive pair with a positive          *)
(* inter-onset interval, it returns legato; otherwise it averages the      *)
(* ratios duration / interval in beats, each capped at 1.2, over the pairs *)
(* with a positive interval and returns legato iff avg >= 0.95, staccato   *)
(* iff avg <= 0.60 and hybrid otherwise; a lone pair of ratio 1.0 is       *)
(* legato and one of ratio 0.3 staccato.                                   *)
C16_BassArticulation ==
    tq.f = "classify_bass_articulation"
        => LET lh == LeftHand
               pairs == CountedPairs(lh)
           IN  IF Len(lh) < 2 \/ pairs = {}
               THEN tq.last.out = "legato"
               ELSE LET avg == RDiv(CappedRatioSum(lh, pairs), R(Cardinality(pairs)))
                    IN  /\ tq.last.out \in {"legato", "staccato", "hybrid"}
                        /\ tq.last.out = "legato" <=> RLe(Norm(95, 100), avg)
                        /\ tq.last.out = "staccato" <=> RLe(avg, Norm(60, 100))
                        /\ tq.last.out = "hybrid"
                              <=> (RLt(Norm(60, 100), avg) /\ RLt(avg, Norm(95, 100)))
                        /\ (Len(lh) = 2 /\ avg = R(1)) => tq.last.out = "legato"
                        /\ (Len(lh) = 2 /\ avg = Norm(3, 10))
                              => tq.last.out = "staccato"

(* A call on three left-hand notes one beat apart with a right-hand note   *)
(* at the start: ratios 2.0 (capped to 1.2) and 0.3 average to 0.75,       *)
(* hybrid.                                                                 *)
C16_Witness ==
    /\ tq.f = "classify_bass_articulation"
    /\ tm.events = SteadyTempo
    /\ Len(tq.last.in) = 4
    /\ tq.last.in[1].hand = "right"
    /\ Len(LeftHand) = 3
    /\ LeftHand[1].duration = Ms(1000)
    /\ LeftHand[2].duration = Ms(150)
    /\ CountedPairs(LeftHand) = {1, 2}
    /\ tq.last.out = "hybrid"

(* C18: has_explicit_time_signatures is false exactly when the signature   *)
(* list is empty or is a single entry with time 0, numerator 4 and         *)
(* denominator 4, and true for every other list.                           *)
C18_ExplicitUnlessDefault ==
    pc = "calls"
        => LET sigs == tm.time_signatures
           IN  tm.has_explicit_time_signatures
                  <=> ~(\/ sigs = <<>>
                        \/ (/\ Len(sigs) = 1
                            /\ sigs[1][1] = Zero
                            /\ sigs[1][2] = 4
                            /\ sigs[1][3] = 4))

(* C19: for total_duration > 0, get_measure_boundaries returns a non-empty *)
(* list of (start, end) pairs with start < end, the first start 0, each    *)
(* end equal to the next start and the last end >= total_duration.         *)
C19_MeasuresCover ==
    (tq.f = "get_measure_boundaries" /\ RLt(Zero, tq.last.in))
        => LET measures == tq.last.out
           IN  /\ Len(measures) >= 1
               /\ \A i \in 1..Len(measures) : RLt(measures[i][1], measures[i][2])
               /\ measures[1][1] = Zero
               /\ \A i \in 1..(Len(measures) - 1) : measures[i][2] = measures[i + 1][1]
               /\ RLe(tq.last.in, measures[Len(measures)][2])
               /\ \A t \in {Norm(k, 8) : k \in 0..24} :
                     RLt(t, tq.last.in)
                        => Cardinality({i \in 1..Len(measures) :
                                           /\ RLe(measures[i][1], t)
                                           /\ RLt(t, measures[i][2])}) = 1

(* A call for 2.5 s on a map whose tempo doubles at 1 s and whose          *)
(* signature goes from 2/4 to 1/4 at 2 s: five measures, of 1 s, 0.5 s,    *)
(* 0.5 s and twice 0.25 s.                                                 *)
C19_Witness ==
    /\ tq.f = "get_measure_boundaries"
    /\ tq.last.in = Norm(5, 2)
    /\ tm.events = FasterLater
    /\ tm.time_signatures = TwoFourThenOneFour
    /\ Len(tq.last.out) = 5
    /\ tq.last.out[1] = <<Zero, R(1)>>
    /\ tq.last.out[2] = <<R(1), Norm(3, 2)>>
    /\ tq.last.out[5] = <<Norm(9, 4), Norm(5, 2)>>

----------------------------------------------------------------------------
(* get_time_groups, as assign_hands calls it                               *)

RECURSIVE Flatten(_)
Flatten(groups) ==
    IF groups = <<>> THEN <<>> ELSE Head(groups) \o Flatten(Tail(groups))

(* The groups assign_hands has just received, the notes still untouched.   *)
GroupsJustBuilt == pc = "fingering" /\ tq.stage = "groups" /\ tq.g = 1

Onsets(group) == [i \in 1..Len(group) |-> group[i].start_time]

(* The groups are non-empty, are the list cut into consecutive pieces, and *)
(* a note is in the group of the note before it iff its start is at most   *)
(* 0.015 s after the start of that group's first note.                     *)
AnchoredPartition ==
    LET groups == tq.time_groups
    IN  /\ \A j \in 1..Len(groups) : Len(groups[j]) >= 1
        /\ Flatten(groups) = notes
        /\ \A j \in 1..Len(groups) : \A i \in 2..Len(groups[j]) :
              RLe(RSub(groups[j][i].start_time, groups[j][1].start_time), Ms(15))
        /\ \A j \in 2..Len(groups) :
              RLt(Ms(15), RSub(groups[j][1].start_time, groups[j - 1][1].start_time))

(* C17 as stated: get_time_groups returns an order-preserving partition    *)
(* into non-empty groups anchored to each group's first note, and onsets   *)
(* 0.0, 0.01, 0.02, 0.05 give the two groups {0.0, 0.01, 0.02} and {0.05}. *)
C17_Original ==
    GroupsJustBuilt
        => /\ AnchoredPartition
           /\ Onsets(notes) = <<Zero, Ms(10), Ms(20), Ms(50)>>
                 => /\ Len(tq.time_groups) = 2
                    /\ Onsets(tq.time_groups[1]) = <<Zero, Ms(10), Ms(20)>>
                    /\ Onsets(tq.time_groups[2]) = <<Ms(50)>>

(* C17: get_time_groups returns an order-preserving partition into         *)
(* non-empty groups anchored to each group's first note; onsets 0.0, 0.01, *)
(* 0.02, 0.05 give the three groups {0.0, 0.01}, {0.02} and {0.05}, 0.02   *)
(* being more than 0.015 after 0.0.                                        *)
C17_AnchoredGroups ==
    GroupsJustBuilt
        => /\ AnchoredPartition
           /\ Onsets(notes) = <<Zero, Ms(10), Ms(20), Ms(50)>>
                 => /\ Len(tq.time_groups) = 3
                    /\ Onsets(tq.time_groups[1]) = <<Zero, Ms(10)>>
                    /\ Onsets(tq.time_groups[2]) = <<Ms(20)>>
                    /\ Onsets(tq.time_groups[3]) = <<Ms(50)>>

(* The groups of the onsets 0.0, 0.01, 0.02, 0.05.                         *)
C17_Witness ==
    /\ GroupsJustBuilt
    /\ Onsets(notes) = <<Zero, Ms(10), Ms(20), Ms(50)>>
    /\ Len(tq.time_groups) = 3

----------------------------------------------------------------------------
(* The breakpoints of a TempoMap                                           *)

BeatsNonDecreasing(segs) ==
    \A i \in 1..(Len(segs) - 1) : RLe(segs[i][2], segs[i + 1][2])

(* C20 as stated: for a tempo-event list sorted by time, which may hold    *)
(* several events at the same time, the breakpoints have strictly          *)
(* increasing times and non-decreasing cumulative beats.                   *)
C20_Original ==
    pc = "tempo"
        => /\ \A i \in 1..(Len(tm.segments) - 1) :
                 RLt(tm.segments[i][1], tm.segments[i + 1][1])
           /\ BeatsNonDecreasing(tm.segments)

(* C20: for a tempo-event list sorted by time, the breakpoints have        *)
(* non-decreasing times and non-decreasing cumulative beats; two           *)
(* consecutive breakpoints have the same time exactly when they are built  *)
(* from two events at the same time, and they then have the same beat.     *)
C20_TimesNonDecreasing ==
    pc = "tempo"
        => LET segs == tm.segments
               off == Len(segs) - Len(tm.events)
           IN  /\ off \in {0, 1}
               /\ BeatsNonDecreasing(segs)
               /\ \A i \in 1..(Len(segs) - 1) :
                     /\ RLe(segs[i][1], segs[i + 1][1])
                     /\ segs[i][1] = segs[i + 1][1]
                           <=> (/\ i - off >= 1
                                /\ tm.events[i - off][1] = tm.events[i + 1 - off][1])
                     /\ segs[i][1] = segs[i + 1][1] => segs[i][2] = segs[i + 1][2]

(* A map built from two events at the same time with different tempos:     *)
(* two breakpoints at that time.                                           *)
C20_Witness ==
    /\ pc = "tempo"
    /\ Len(tm.events) = 2
    /\ tm.events[1][1] = tm.events[2][1]
    /\ tm.events[1][2] # tm.events[2][2]
    /\ Len(tm.segments) = 2
    /\ tm.segments[1][1] = tm.segments[2][1]
    /\ tm.segments[1][3] # tm.segments[2][3]

----------------------------------------------------------------------------
(* Rubato specification: apply_tempo_rubato on a list all_notes and on     *)
(* sections analysed from a list that shares some of its notes with        *)
(* all_notes, so that some notes are in no section and some section notes  *)
(* are not in all_notes.                                                   *)

MaxRubatoSlots == 4

RubatoSlotStart(k) ==
    IF k = 1 THEN Zero
    ELSE IF k = 2 THEN Norm(1, 2)
    ELSE IF k = 3 THEN R(3)
    ELSE RAdd(R(3), Norm(k - 3, 5))

RubatoKinds ==
    {NoKind} \cup [duration : {Ms(40), Ms(1200)}, member : {"both", "all_notes", "section"}]

RECURSIVE NotesOfRubatoSlots(_, _, _)
NotesOfRubatoSlots(slots, members, k) ==
    IF k > Len(slots) THEN <<>>
    ELSE (IF slots[k] # NoKind /\ slots[k].member \in members
          THEN <<Note(k, 48, RubatoSlotStart(k), slots[k].duration, "left")>>
          ELSE <<>>)
         \o NotesOfRubatoSlots(slots, members, k + 1)

RubatoConfigs ==
    [vary_timing : {FALSE}, timing_variance : {Ms(10)},
     vary_articulation : {FALSE}, articulation : {Norm(95, 100)},
     enable_drift_correction : {FALSE}, drift_decay_factor : {Norm(25, 100)},
     enable_chord_roll : {FALSE},
     enable_tempo_sway : BOOLEAN, tempo_sway_intensity : {Ms(20)},
     invert_tempo_sway : {FALSE}]

InitRubato ==
    /\ pc = "humanize"
    /\ \E slots \in [1..MaxRubatoSlots -> RubatoKinds], config \in RubatoConfigs,
          sigs \in {<<>>, TwoFour} :
          /\ notes = NotesOfRubatoSlots(slots, {"both", "all_notes"}, 1)
          /\ tm = NewTempoMap(SteadyTempo, sigs)
          /\ sections = analyze(tm, NotesOfRubatoSlots(slots, {"both", "section"}, 1))
          /\ hum = [HumanizerCall(config, "left", {}) EXCEPT !.stage = "done"]
    /\ tq = NoQuery
    /\ ped = NoPedal

NextRubato == ApplyTempoRubato

SpecRubato == InitRubato /\ [][NextRubato]_vars

LongSection(section) == RLe(R(1), RSub(section.end_time, section.start_time))

InSection(section, id) == \E j \in 1..Len(section.notes) : section.notes[j].id = id

(* C21: apply_tempo_rubato changes only start_time, and only of notes of   *)
(* all_notes that are in a section at least 1.0 s long: durations, notes   *)
(* of shorter sections, notes in no section, section notes missing from    *)
(* all_notes, the sections' own fields and the drifts stay as they are.    *)
C21_RubatoFrame ==
    [][(pc = "humanize" /\ hum.stage = "done")
          => /\ Len(notes') = Len(notes)
             /\ \A k \in 1..Len(notes) :
                   /\ notes'[k] = [notes[k] EXCEPT !.start_time = notes'[k].start_time]
                   /\ notes'[k].start_time # notes[k].start_time
                         => \E i \in 1..Len(sections) :
                               /\ LongSection(sections[i])
                               /\ InSection(sections[i], notes[k].id)
             /\ Len(sections') = Len(sections)
             /\ \A i \in 1..Len(sections) :
                   /\ sections'[i] = [sections[i] EXCEPT !.notes = sections'[i].notes]
                   /\ Len(sections'[i].notes) = Len(sections[i].notes)
                   /\ \A j \in 1..Len(sections[i].notes) :
                         \/ sections'[i].notes[j] = sections[i].notes[j]
                         \/ /\ LongSection(sections[i])
                            /\ HasId(notes, sections[i].notes[j].id)
                            /\ sections'[i].notes[j] =
                                  [sections[i].notes[j] EXCEPT
                                      !.start_time = sections'[i].notes[j].start_time]
             /\ DriftKept]_vars

(* After a rubato pass with sway on: the note of slot 2, in a long section *)
(* and in all_notes, has moved; the note of slot 3, alone in a short       *)
(* section, has not; the note of slot 4 is in no section.                  *)
C21_Witness ==
    /\ pc = "humanize"
    /\ hum.stage = "swayed"
    /\ hum.config.enable_tempo_sway
    /\ Len(notes) = 4
    /\ \A k \in 1..4 : notes[k].id = k
    /\ notes[2].start_time # RubatoSlotStart(2)
    /\ notes[2].duration = Ms(1200)
    /\ notes[3].start_time = RubatoSlotStart(3)
    /\ \E i \in 1..Len(sections) :
          InSection(sections[i], 3) /\ ~LongSection(sections[i])
    /\ notes[4].start_time = RubatoSlotStart(4)
    /\ ~(\E i \in 1..Len(sections) : InSection(sections[i], 4))

(* The relative position apply_tempo_rubato computes for a note of a       *)
(* section.                                                                *)
RelPos(section, note) ==
    RDiv(RSub(note.start_time, section.start_time),
         RSub(section.end_time, section.start_time))

(* C22: when apply_tempo_rubato is called after analyze and apply_to_hand, *)
(* every note it is about to shift (in a section at least 1.0 s long,      *)
(* with its id in all_notes) has a relative position in [0, 1].            *)
C22_RelPosInUnit ==
    (pc = "humanize" /\ hum.stage = "done" /\ hum.config.enable_tempo_sway)
        => \A i \in 1..Len(sections) :
              LongSection(sections[i])
                 => \A j \in 1..Len(sections[i].notes) :
                       HasId(notes, sections[i].notes[j].id)
                          => /\ RLe(Zero, RelPos(sections[i], sections[i].notes[j]))
                             /\ RLe(RelPos(sections[i], sections[i].notes[j]), R(1))

----------------------------------------------------------------------------
(* generate_events as a whole                                              *)

(* The list _generate_adaptive_pedal_driver returns for a driver voice:    *)
(* the events of its notes i.. and the final disengage.                    *)
RECURSIVE AdaptiveRun(_, _)
AdaptiveRun(driver, i) ==
    IF driver = <<>> THEN <<>>
    ELSE IF i > Len(driver) THEN <<PedalUp(MaxEnd(driver))>>
    ELSE AdaptiveNoteEvents(driver, i) \o AdaptiveRun(driver, i + 1)

(* The notes of a hand in the order of the list, which is sorted by start. *)
HandNotes(ns, hand) == SelectSeq(ns, LAMBDA n : n.hand = hand)

----------------------------------------------------------------------------
(* One iteration of apply_to_hand, seen from outside                       *)

InGroupStep ==
    pc = "humanize" /\ hum.stage = "groups" /\ hum.g <= Len(hum.time_groups)

HandDrift(h) == IF h.hand = "left" THEN h.left_hand_drift ELSE h.right_hand_drift

OtherDrift(h) == IF h.hand = "left" THEN h.right_hand_drift ELSE h.left_hand_drift

(* The hand's drift after the decay the current group may bring.           *)
DecayedDrift ==
    IF Round2(hum.time_groups[hum.g][1].start_time) \in hum.resync_points
    THEN RMul(HandDrift(hum), hum.config.drift_decay_factor)
    ELSE HandDrift(hum)

(* The chord-roll delay of note k of the list in the current group.        *)
RollDelay(k) ==
    IF hum.config.enable_chord_roll /\ Len(hum.time_groups[hum.g]) > 1
    THEN RMul(R(RollRank(k)), Ms(6))
    ELSE Zero

(* C24: with drift correction enabled, an iteration of apply_to_hand first *)
(* multiplies the hand's drift by the decay factor iff the group's start   *)
(* rounded to 2 decimals is in resync_points; it shifts every note of the  *)
(* group (beyond its chord-roll delay) by one common amount, the group     *)
(* timing offset plus that decayed drift; the drift then becomes the       *)
(* decayed drift plus the offset, the offset being 0 without vary_timing   *)
(* and within 3 sigma with it; the other hand's drift does not change.     *)
C24_DriftStep ==
    [][(InGroupStep /\ hum.config.enable_drift_correction)
          => LET offset == RSub(HandDrift(hum'), DecayedDrift)
                 sigma3 == RMul(R(3), hum.config.timing_variance)
             IN  /\ ~hum.config.vary_timing => offset = Zero
                 /\ RLe(RAbs(offset), sigma3)
                 /\ \A k \in 1..Len(notes) :
                       notes'[k].start_time =
                          IF InCurrentGroup(k)
                          THEN RAdd(RAdd(notes[k].start_time, RollDelay(k)),
                                    RAdd(offset, DecayedDrift))
                          ELSE notes[k].start_time
                 /\ OtherDrift(hum') = OtherDrift(hum)]_vars

(* A finished left-hand call over two groups, the second on a resync       *)
(* point: drift 0.03 after the first, decayed to 0.0075 at the second,     *)
(* whose note at 0.02 went to 0.02 - 0.03 + 0.0075 and left the drift at   *)
(* 0.0075 - 0.03.                                                          *)
C24_Witness ==
    /\ pc = "humanize"
    /\ hum.stage = "done"
    /\ hum.hand = "left"
    /\ hum.config.enable_drift_correction
    /\ hum.config.vary_timing
    /\ ~hum.config.enable_chord_roll
    /\ Ms(20) \in hum.resync_points
    /\ Len(hum.time_groups) = 2
    /\ hum.left_hand_drift = Norm(-225, 10000)
    /\ hum.right_hand_drift = Zero
    /\ notes[Len(notes)].id = 3
    /\ notes[Len(notes)].start_time = Norm(-25, 10000)

(* The notes of the list that are in the current group.                    *)
CurrentGroupNotes == {k \in 1..Len(notes) : InCurrentGroup(k)}

(* C25: with chord roll enabled, an iteration over a group of more than    *)
(* one note moves the member with the k-th lowest pitch (k from 0) by      *)
(* k * 6 ms more than the common shift of the group, which is the timing   *)
(* offset plus, with drift correction, the drift; the lowest note gets the *)
(* common shift alone, and so does the note of a singleton group.          *)
C25_ChordRoll ==
    [][(InGroupStep /\ hum.config.enable_chord_roll)
          => \E low \in CurrentGroupNotes :
                LET common == RSub(notes'[low].start_time, notes[low].start_time)
                    offset == IF hum.config.enable_drift_correction
                              THEN RSub(common, DecayedDrift) ELSE common
                    n == Cardinality(CurrentGroupNotes)
                IN  /\ \A k \in CurrentGroupNotes : notes[low].pitch <= notes[k].pitch
                    /\ ~hum.config.vary_timing => offset = Zero
                    /\ RLe(RAbs(offset), RMul(R(3), hum.config.timing_variance))
                    /\ \E rank \in [CurrentGroupNotes -> 0..(n - 1)] :
                          /\ \A j, k \in CurrentGroupNotes : j # k => rank[j] # rank[k]
                          /\ \A j, k \in CurrentGroupNotes :
                                rank[j] < rank[k] => notes[j].pitch <= notes[k].pitch
                          /\ rank[low] = 0
                          /\ \A k \in CurrentGroupNotes :
                                notes'[k].start_time =
                                   RAdd(RAdd(notes[k].start_time, common),
                                        RMul(R(rank[k]), Ms(6)))]_vars

(* A finished call with chord roll and timing variation on a chord whose   *)
(* first note is the higher one: it went 0.03 + 0.006 later, the lower     *)
(* note 0.03 later.                                                        *)
C25_Witness ==
    /\ pc = "humanize"
    /\ hum.stage = "done"
    /\ hum.config.enable_chord_roll
    /\ hum.config.vary_timing
    /\ ~hum.config.enable_drift_correction
    /\ Len(notes) >= 2
    /\ notes[1].id = 1 /\ notes[1].pitch = 60
    /\ notes[2].id = 2 /\ notes[2].pitch = 48
    /\ notes[1].start_time = Ms(36)
    /\ notes[2].start_time = Ms(40)

----------------------------------------------------------------------------
(* The harmonic pedal and the section loop, step by step                   *)

InHarmonicNote == pc = "pedal" /\ ped.stage = "harmonic" /\ ped.i <= Len(ped.voice)

(* The start of bass note i minus the end of bass note i - 1.              *)
BassGap(voice, i) == RSub(voice[i].start_time, RAdd(voice[i - 1].start_time,
                                                    voice[i - 1].duration))

(* C26: in the harmonic pedal the first bass note emits only an engage at  *)
(* its start; a later note whose start is more than 0.15 s after the       *)
(* previous bass note's end emits a disengage at that end and a re-engage  *)
(* at its start, same pitch or not; a later note with a gap of at most     *)
(* 0.15 s and the previous note's pitch emits nothing.                     *)
C26_HarmonicGap ==
    [][InHarmonicNote
          => LET voice == ped.voice
                 i == ped.i
             IN  /\ KeepsEmitted
                 /\ i = 1 => Appended = <<KeyEvent(voice[1].start_time, 1, "pedal", "down")>>
                 /\ (i > 1 /\ RLt(Ms(150), BassGap(voice, i)))
                       => Appended =
                            <<KeyEvent(RAdd(voice[i - 1].start_time, voice[i - 1].duration),
                                       0, "pedal", "up"),
                              KeyEvent(voice[i].start_time, 1, "pedal", "down")>>
                 /\ (i > 1 /\ RLe(BassGap(voice, i), Ms(150))
                           /\ voice[i].pitch = voice[i - 1].pitch)
                       => Appended = <<>>]_vars

(* A finished harmonic call on four bass notes of one pitch in one         *)
(* section: gaps of 0 and of exactly 0.15 s emit nothing, the gap of       *)
(* 0.95 s breaks the pedal although the pitch is the same.                 *)
C26_Witness ==
    /\ pc = "pedal"
    /\ ped.stage = "done"
    /\ ped.style = "legato"
    /\ Len(sections) = 1
    /\ Len(notes) = 4
    /\ \A k \in 1..4 : notes[k].pitch = 48 /\ notes[k].hand = "left"
    /\ ped.events = <<PedalDown(Zero), PedalUp(Ms(750)), PedalDown(Ms(1700)),
                      PedalUp(Ms(1900))>>

----------------------------------------------------------------------------
(* Sectioned-pedal specification: the styles that walk the sections, on    *)
(* notes that form chords (onsets 0 and 0.01 s), follow closely (0.3 s)    *)
(* or come after a silence (2 s).                                          *)

MaxChordSlots == 4

ChordSlotStart(k) ==
    IF k = 1 THEN Zero
    ELSE IF k = 2 THEN Ms(10)
    ELSE IF k = 3 THEN Ms(300)
    ELSE R(k - 2)

ChordKinds ==
    {NoKind,
     [hand |-> "left", pitch |-> 50, duration |-> Ms(500)],
     [hand |-> "left", pitch |-> 48, duration |-> Ms(200)],
     [hand |-> "right", pitch |-> 72, duration |-> Ms(200)]}

RECURSIVE NotesOfChordSlots(_, _)
NotesOfChordSlots(slots, k) ==
    IF k > Len(slots) THEN <<>>
    ELSE (IF slots[k] = NoKind THEN <<>>
          ELSE <<Note(k, slots[k].pitch, ChordSlotStart(k), slots[k].duration,
                      slots[k].hand)>>)
         \o NotesOfChordSlots(slots, k + 1)

SectionStyles == {"rhythmic", "legato"}

InitSectionPedal ==
    /\ pc = "pedal"
    /\ \E slots \in [1..MaxChordSlots -> ChordKinds], sigs \in {<<>>, TwoFour} :
          /\ notes = NotesOfChordSlots(slots, 1)
          /\ tm = NewTempoMap(SteadyTempo, sigs)
          /\ sections = analyze(tm, notes)
    /\ \E style \in SectionStyles : ped = PedalCall(style)
    /\ tq = NoQuery
    /\ hum = NoHum

NextSectionPedal ==
    \/ GenerateEvents
    \/ SectionStep
    \/ HarmonicNote
    \/ HarmonicEnd

SpecSectionPedal == InitSectionPedal /\ [][NextSectionPedal]_vars

InSectionStep == pc = "pedal" /\ ped.stage = "sections" /\ ped.sec <= Len(sections)

(* The largest end_time among the notes ns.                                *)
LatestEnd(ns) ==
    CHOOSE e \in {RAdd(ns[j].start_time, ns[j].duration) : j \in 1..Len(ns)} :
        \A j \in 1..Len(ns) : RLe(RAdd(ns[j].start_time, ns[j].duration), e)

(* C27: for a style other than 'none' and 'hybrid', an iteration over a    *)
(* section keeps what earlier sections emitted and appends: for a section  *)
(* without left-hand notes one engage at its first note's start and one    *)
(* disengage at the latest end of its notes; with style 'rhythmic', for    *)
(* each simultaneity group of its left-hand notes one engage at the        *)
(* group's start and one disengage at the group's latest end; with any     *)
(* other style nothing yet, the harmonic pedal starting on the section's   *)
(* left-hand notes.                                                        *)
C27_PerSection ==
    [][InSectionStep
          => LET section == sections[ped.sec]
                 lh == HandNotes(section.notes, "left")
                 groups == get_time_groups(lh)
             IN  /\ KeepsEmitted
                 /\ lh = <<>>
                      => /\ Appended =
                              <<KeyEvent(section.notes[1].start_time, 1, "pedal", "down"),
                                KeyEvent(LatestEnd(section.notes), 0, "pedal", "up")>>
                         /\ ped'.stage = "sections" /\ ped'.sec = ped.sec + 1
                 /\ (lh # <<>> /\ ped.style = "rhythmic")
                      => /\ Len(Appended) = 2 * Len(groups)
                         /\ \A g \in 1..Len(groups) :
                               /\ Appended[2 * g - 1] =
                                     KeyEvent(groups[g][1].start_time, 1, "pedal", "down")
                               /\ Appended[2 * g] =
                                     KeyEvent(LatestEnd(groups[g]), 0, "pedal", "up")
                         /\ ped'.stage = "sections" /\ ped'.sec = ped.sec + 1
                 /\ (lh # <<>> /\ ped.style # "rhythmic")
                      => /\ Appended = <<>>
                         /\ ped'.stage = "harmonic"
                         /\ ped'.voice = lh
                         /\ ped'.i = 1
                         /\ ped'.current_bass_pitch = -1]_vars

(* A finished rhythmic call on two sections: a left-hand chord whose first *)
(* note ends last together with a right-hand note, then a right-hand note  *)
(* alone after the silence.                                                *)
C27_Witness ==
    /\ pc = "pedal"
    /\ ped.stage = "done"
    /\ ped.style = "rhythmic"
    /\ Len(sections) = 2
    /\ Len(notes) = 4
    /\ notes[1].pitch = 50 /\ notes[2].pitch = 48
    /\ notes[3].hand = "right" /\ notes[4].hand = "right"
    /\ ped.events = <<PedalDown(Zero), PedalUp(Ms(500)), PedalDown(R(2)),
                      PedalUp(Ms(2200))>>

----------------------------------------------------------------------------
(* The sections as a partition of the notes                                *)

(* The places <<section, index>> at which the note occurs in the sections. *)
PlacesOf(note) ==
    {p \in UNION {{<<i, j>> : j \in 1..Len(sections[i].notes)} : i \in 1..Len(sections)} :
        sections[p[1]].notes[p[2]] = note}

(* C28: for a non-empty input with positive durations, under both          *)
(* strategies, every input note is in the note list of exactly one section *)
(* of the result, once, every section note is an input note and no section *)
(* has an empty note list.                                                 *)
C28_SectionsPartition ==
    (pc = "analyzed" /\ notes # <<>>)
        => /\ Len(sections) >= 1
           /\ \A i \in 1..Len(sections) : Len(sections[i].notes) >= 1
           /\ \A k \in 1..Len(notes) : Cardinality(PlacesOf(notes[k])) = 1
           /\ \A i \in 1..Len(sections) : \A j \in 1..Len(sections[i].notes) :
                 \E k \in 1..Len(notes) : notes[k] = sections[i].notes[j]

(* A measure-based analysis of notes that start on measure boundaries,     *)
(* after an empty first measure and around an empty measure, in two        *)
(* sections.                                                               *)
C28_Witness ==
    /\ pc = "analyzed"
    /\ MeasureBased
    /\ Len(sections) = 2
    /\ Len(notes) >= 3
    /\ notes[1].start_time = R(1)
    /\ notes[Len(notes)].start_time = Norm(5, 2)
    /\ ~(\E k \in 1..Len(notes) : notes[k].start_time = Norm(3, 2))
    /\ sections[1].notes[1] = notes[1]
    /\ sections[2].notes[Len(sections[2].notes)] = notes[Len(notes)]

----------------------------------------------------------------------------
(* The list generate_events returns, in emission order                     *)

(* C29: for every style and input, a non-empty result of generate_events   *)
(* starts with an engage, ends with a disengage and alternates between the *)
(* two, so it holds as many engages as disengages.                         *)
C29_Alternation ==
    (pc = "pedal" /\ ped.stage = "done" /\ ped.events # <<>>)
        => LET events == ped.events
               n == Len(events)
           IN  /\ \A k \in 1..n : events[k].action = "pedal"
               /\ events[1].key_char = "down"
               /\ events[n].key_char = "up"
               /\ \A k \in 1..(n - 1) :
                     /\ events[k].key_char = "down" => events[k + 1].key_char = "up"
                     /\ events[k].key_char = "up" => events[k + 1].key_char = "down"
               /\ Cardinality({k \in 1..n : events[k].key_char = "down"})
                     = Cardinality({k \in 1..n : events[k].key_char = "up"})

(* A finished hybrid call whose driver repedals between the first two      *)
(* notes and breaks the pedal at the silence before the last: six events.  *)
C29_Witness ==
    /\ pc = "pedal"
    /\ ped.stage = "done"
    /\ ped.style = "hybrid"
    /\ Len(ped.events) = 6
    /\ ped.events[3].time = RAdd(ped.events[2].time, Ms(50))
    /\ RLt(Ms(350), RSub(ped.events[5].time, ped.events[4].time))

----------------------------------------------------------------------------
(* Configuration persistence of the main window (main.py): the controls,   *)
(* the file config.json, _save_config and _load_config.  The record tq     *)
(* holds the window: controls maps each widget to its value, file is the   *)
(* configuration file, saved is the value of the controls at the last      *)
(* _save_config, loaded tells that the window was just constructed (and    *)
(* _load_config ran) and edits counts the user's changes.                  *)

MaxEdits == 3

(* pedal_mapping and its inverse pedal_mapping_inv.                         *)
pedal_mapping ==
    [t \in {"Automatic (Default)", "Always Sustain", "Rhythmic Only", "No Pedal"} |->
        CASE t = "Automatic (Default)" -> "hybrid"
          [] t = "Always Sustain"      -> "legato"
          [] t = "Rhythmic Only"       -> "rhythmic"
          [] t = "No Pedal"            -> "none"]

pedal_mapping_inv ==
    [v \in {pedal_mapping[t] : t \in DOMAIN pedal_mapping} |->
        CHOOSE t \in DOMAIN pedal_mapping : pedal_mapping[t] = v]

(* dict.get(key, default).                                                  *)
DictGet(d, key, default) == IF key \in DOMAIN d THEN d[key] ELSE default

(* The keys of all_humanization_checks whose check box has a text (the      *)
(* dummy vary_velocity has none).                                           *)
HumanizationChecks ==
    {"simulate_hands", "enable_chord_roll", "vary_timing", "vary_articulation",
     "hand_drift", "mistake_chance", "tempo_sway", "invert_tempo_sway"}

(* The check boxes outside the humanization group.                          *)
PlainChecks == {"use_88_key_check", "countdown_check", "debug_check", "always_top_check"}

(* The widgets after _setup_ui: the values the constructors give, which    *)
(* are also the values of _reset_controls_to_default.                      *)
DefaultControls ==
    [w \in HumanizationChecks \cup PlainChecks \cup
           {"tempo_spinbox", "pedal_style_combo", "select_all_humanization_check",
            "spinbox.vary_timing", "spinbox.vary_articulation", "spinbox.hand_drift",
            "spinbox.mistake_chance", "spinbox.tempo_sway", "opacity_slider"} |->
        CASE w = "tempo_spinbox"             -> R(100)
          [] w = "pedal_style_combo"         -> "Automatic (Default)"
          [] w = "countdown_check"           -> TRUE
          [] w = "spinbox.vary_timing"       -> Ms(10)
          [] w = "spinbox.vary_articulation" -> R(95)
          [] w = "spinbox.hand_drift"        -> R(25)
          [] w = "spinbox.mistake_chance"    -> Norm(1, 2)
          [] w = "spinbox.tempo_sway"        -> Ms(15)
          [] w = "opacity_slider"            -> R(100)
          [] OTHER                           -> FALSE]

(* _update_select_all_state: the select-all box shows whether every        *)
(* humanization check is checked (set with its signals blocked).           *)
UpdateSelectAllState(c) ==
    [c EXCEPT !["select_all_humanization_check"] = \A k \in HumanizationChecks : c[k]]

(* check.setChecked(value) of a humanization check: toggled is emitted     *)
(* only on a change, and is connected to _update_select_all_state.         *)
SetHumanizationCheck(c, key, value) ==
    IF c[key] = value THEN c
    ELSE UpdateSelectAllState([c EXCEPT ![key] = value])

(* select_all_humanization_check.setChecked(value): on a change toggled    *)
(* runs _toggle_all_humanization, which sets every humanization check to   *)
(* value, each of them recomputing the select-all box.                     *)
SetSelectAll(c, value) ==
    IF c["select_all_humanization_check"] = value THEN c
    ELSE LET toggled == [c EXCEPT !["select_all_humanization_check"] = value]
             all_set == [w \in DOMAIN c |-> IF w \in HumanizationChecks THEN value ELSE toggled[w]]
         IN  IF \E k \in HumanizationChecks : c[k] # value
                THEN UpdateSelectAllState(all_set)
                ELSE all_set

(* The dictionary _save_config dumps to config.json.                       *)
SavedConfig(c) ==
    [key \in {"tempo", "pedal_style", "use_88_key_layout", "countdown", "debug_mode",
              "select_all_humanization", "simulate_hands", "enable_chord_roll",
              "vary_timing", "value_timing_variance", "enable_vary_articulation",
              "value_articulation", "enable_hand_drift", "value_hand_drift_decay",
              "enable_mistakes", "value_mistake_chance", "enable_tempo_sway",
              "value_tempo_sway_intensity", "invert_tempo_sway", "always_on_top",
              "opacity"} |->
        CASE key = "tempo"                      -> c["tempo_spinbox"]
          [] key = "pedal_style"                -> DictGet(pedal_mapping, c["pedal_style_combo"], "hybrid")
          [] key = "use_88_key_layout"          -> c["use_88_key_check"]
          [] key = "countdown"                  -> c["countdown_check"]
          [] key = "debug_mode"                 -> c["debug_check"]
          [] key = "select_all_humanization"    -> c["select_all_humanization_check"]
          [] key = "simulate_hands"             -> c["simulate_hands"]
          [] key = "enable_chord_roll"          -> c["enable_chord_roll"]
          [] key = "vary_timing"                -> c["vary_timing"]
          [] key = "value_timing_variance"      -> c["spinbox.vary_timing"]
          [] key = "enable_vary_articulation"   -> c["vary_articulation"]
          [] key = "value_articulation"         -> c["spinbox.vary_articulation"]
          [] key = "enable_hand_drift"          -> c["hand_drift"]
          [] key = "value_hand_drift_decay"     -> c["spinbox.hand_drift"]
          [] key = "enable_mistakes"            -> c["mistake_chance"]
          [] key = "value_mistake_chance"       -> c["spinbox.mistake_chance"]
          [] key = "enable_tempo_sway"          -> c["tempo_sway"]
          [] key = "value_tempo_sway_intensity" -> c["spinbox.tempo_sway"]
          [] key = "invert_tempo_sway"          -> c["invert_tempo_sway"]
          [] key = "always_on_top"              -> c["always_top_check"]
          [] key = "opacity"                    -> c["opacity_slider"]]

(* The body of _load_config for an existing file: the setters in the       *)
(* order of the code, each reading config.get(key, default).               *)
LoadedControls(c, config) ==
    LET c1 == [c EXCEPT
                 !["tempo_spinbox"] = DictGet(config, "tempo", R(100)),
                 !["pedal_style_combo"] =
                     DictGet(pedal_mapping_inv, DictGet(config, "pedal_style", "hybrid"),
                             "Automatic (Default)"),
                 !["use_88_key_check"] = DictGet(config, "use_88_key_layout", FALSE),
                 !["countdown_check"] = DictGet(config, "countdown", TRUE),
                 !["debug_check"] = DictGet(config, "debug_mode", FALSE)]
        c2 == SetSelectAll(c1, DictGet(config, "select_all_humanization", FALSE))
        c3 == SetHumanizationCheck(c2, "simulate_hands", DictGet(config, "simulate_hands", FALSE))
        c4 == SetHumanizationCheck(c3, "enable_chord_roll", DictGet(config, "enable_chord_roll", FALSE))
        c5 == SetHumanizationCheck(c4, "vary_timing", DictGet(config, "enable_vary_timing", FALSE))
        c6 == [c5 EXCEPT !["spinbox.vary_timing"] = DictGet(config, "value_timing_variance", Ms(10))]
        c7 == SetHumanizationCheck(c6, "vary_articulation", DictGet(config, "enable_vary_articulation", FALSE))
        c8 == [c7 EXCEPT !["spinbox.vary_articulation"] = DictGet(config, "value_articulation", R(95))]
        c9 == SetHumanizationCheck(c8, "hand_drift", DictGet(config, "enable_hand_drift", FALSE))
        c10 == [c9 EXCEPT !["spinbox.hand_drift"] = DictGet(config, "value_hand_drift_decay", R(25))]
        c11 == SetHumanizationCheck(c10, "mistake_chance", DictGet(config, "enable_mistakes", FALSE))
        c12 == [c11 EXCEPT !["spinbox.mistake_chance"] = DictGet(config, "value_mistake_chance", Norm(1, 2))]
        c13 == SetHumanizationCheck(c12, "tempo_sway", DictGet(config, "enable_tempo_sway", FALSE))
        c14 == [c13 EXCEPT !["spinbox.tempo_sway"] = DictGet(config, "value_tempo_sway_intensity", Ms(15))]
        c15 == SetHumanizationCheck(c14, "invert_tempo_sway", DictGet(config, "invert_tempo_sway", FALSE))
    IN  [c15 EXCEPT
           !["always_top_check"] = DictGet(config, "always_on_top", FALSE),
           !["opacity_slider"] = DictGet(config, "opacity", R(100))]

(* No config.json yet.                                                      *)
NoFile == [exists |-> FALSE]

(* The values the user gives the edited spin boxes and the slider.         *)
TempoValues == {R(100), R(120)}
TimingVarianceValues == {Ms(10), Ms(20)}
OpacityValues == {R(100), R(80)}

(* The first start of the program: MainWindow() with no config.json.       *)
InitConfig ==
    /\ pc = "config"
    /\ tq = [f |-> "config", controls |-> DefaultControls, file |-> NoFile,
             saved |-> DefaultControls, loaded |-> TRUE, edits |-> 0]
    /\ tm = NoTempoMap
    /\ notes = <<>>
    /\ sections = <<>>
    /\ ped = NoPedal
    /\ hum = NoHum

(* The user's change of the controls to c.                                  *)
Edited(c) ==
    /\ pc = "config"
    /\ tq.edits < MaxEdits
    /\ c # tq.controls
    /\ tq' = [tq EXCEPT !.controls = c, !.loaded = FALSE, !.edits = @ + 1]
    /\ UNCHANGED <<pc, tm, notes, sections, ped, hum>>

(* A click on a humanization check; _update_enabled_states leaves the      *)
(* invert box enabled only while tempo sway is checked.                     *)
ToggleHumanizationCheck ==
    \E key \in HumanizationChecks :
        /\ pc = "config"
        /\ key = "invert_tempo_sway" => tq.controls["tempo_sway"]
        /\ Edited(SetHumanizationCheck(tq.controls, key, ~tq.controls[key]))

(* A click on the select-all box.                                           *)
ToggleSelectAll ==
    /\ pc = "config"
    /\ Edited(SetSelectAll(tq.controls, ~tq.controls["select_all_humanization_check"]))

(* A click on one of the other check boxes.                                 *)
TogglePlainCheck ==
    \E w \in PlainChecks :
        /\ pc = "config"
        /\ Edited([tq.controls EXCEPT ![w] = ~@])

(* A choice in the pedal style combo box.                                   *)
ChoosePedalStyle ==
    \E t \in DOMAIN pedal_mapping :
        /\ pc = "config"
        /\ Edited([tq.controls EXCEPT !["pedal_style_combo"] = t])

(* A new value in the tempo spin box, in the timing variance spin box      *)
(* (enabled while vary timing is checked) or in the opacity slider.        *)
EditValue ==
    \/ \E v \in TempoValues :
          pc = "config" /\ Edited([tq.controls EXCEPT !["tempo_spinbox"] = v])
    \/ \E v \in TimingVarianceValues :
          /\ pc = "config"
          /\ tq.controls["vary_timing"]
          /\ Edited([tq.controls EXCEPT !["spinbox.vary_timing"] = v])
    \/ \E v \in OpacityValues :
          pc = "config" /\ Edited([tq.controls EXCEPT !["opacity_slider"] = v])

(* handle_play: _save_config writes the controls to config.json.           *)
SaveConfig ==
    /\ pc = "config"
    /\ tq' = [tq EXCEPT !.file = [exists |-> TRUE, config |-> SavedConfig(tq.controls)],
                        !.saved = tq.controls,
                        !.loaded = FALSE]
    /\ UNCHANGED <<pc, tm, notes, sections, ped, hum>>

(* The next start of the program: _setup_ui builds the widgets with their  *)
(* defaults and _load_config applies config.json when there is one.        *)
LoadConfig ==
    /\ pc = "config"
    /\ ~tq.loaded
    /\ tq' = [tq EXCEPT !.controls = IF tq.file.exists
                                        THEN LoadedControls(DefaultControls, tq.file.config)
                                        ELSE DefaultControls,
                        !.loaded = TRUE]
    /\ UNCHANGED <<pc, tm, notes, sections, ped, hum>>

NextConfig ==
    \/ ToggleHumanizationCheck
    \/ ToggleSelectAll
    \/ TogglePlainCheck
    \/ ChoosePedalStyle
    \/ EditValue
    \/ SaveConfig
    \/ LoadConfig

SpecConfig == InitConfig /\ [][NextConfig]_vars

(* C30: after _save_config and then _load_config every saved setting has   *)
(* the value it had when it was saved: whenever the window has just loaded *)
(* an existing config.json, each control, the humanization check boxes     *)
(* among them, equals its value at the last save.                          *)
C30_RoundTrip ==
    (pc = "config" /\ tq.loaded /\ tq.file.exists)
        => \A w \in DOMAIN tq.controls : tq.controls[w] = tq.saved[w]
====
